---- MODULE Spec2Model ----
(***************************************************************************)
(* Verification model of pepper-backend: the refresh scheduler             *)
(* (lib/scheduler.ts), the ephemeral SQLite cache (lib/sqliteCache.ts,     *)
(* services/cacheService.ts), the cache orchestrator                       *)
(* (services/articlesService.ts) and the batch categorization pipeline     *)
(* (services/categorizeService.ts).                                        *)
(*                                                                         *)
(* The module holds these state machines over one variable tuple:         *)
(*   Spec / FairSpec  the refresh scheduler and the server-side runs       *)
(*   CacheSpec        the ephemeral cache and getCachedArticles            *)
(*   CacheApiSpec     cacheService called on its own                       *)
(*   CatSpec          categorizeArticles (lookup, classify, persist)       *)
(*   CatLongSpec      categorizeArticles on inputs of several sub-batches  *)
(*   CatRouteSpec     POST /api/categorize in both revisions of the route  *)
(*   RefreshSpec      fetchCategorizeAndCacheArticles called directly      *)
(*   DurableSpec      supabaseService.getData                              *)
(*   CleanupSpec      the cache cleanup scheduler (lib/cacheCleanup)       *)
(*   KwSpec           categorizeArticleWithKeywords on its own             *)
(*   IdSpec           the item ids of createArticleId / createUniqueId     *)
(*   DirectSpec       the scheduler plus requests no tick made             *)
(*   DbInitSpec       initializeDatabase from the load of the module       *)
(* Each specification leaves the other machines' variables unchanged.      *)
(***************************************************************************)
EXTENDS Integers, Sequences, FiniteSets, TLC

VARIABLES
  supabaseIsConfigured,   \* SUPABASE_URL and SUPABASE_SERVICE_KEY are both set
  configModule,   \* the file '../config' resolves to: config.ts or config.js
  schedulerFetchPages,    \* config.SCHEDULER_FETCH_PAGES
  isJobRunning,   \* scheduler.ts:6   let isJobRunning = false
  tick,           \* position of every cron callback invocation
  run,            \* server-side fetchCategorizeAndCacheArticles run per request
  fetches,        \* page fetches issued by the run a tick started
  persists,       \* categorize-and-persist batch requests issued by that run
  releases,       \* how often a tick's finally block cleared the flag
  ttlConfig,      \* config.CACHE.DEFAULTS.TTL (seconds)
  cleanupExpirationSeconds,   \* config.CACHE.CLEANUP.EXPIRATION_SECONDS
  dbType,         \* sqliteCache.ts:33  'better-sqlite3' | 'sqlite3' | 'none'
  db,             \* sqliteCache.ts:32  a database handle is held (db is not null)
  now,            \* Math.floor(Date.now() / 1000)
  cacheTable,     \* rows of table articles_cache in cache/local_cache.db
  store,          \* rows of table categorized_articles (Supabase)
  gca,            \* the getCachedArticles call in progress
  lastSet,        \* history: the last setCachedValue that stored a row
  lastGet,        \* history: the last direct getCachedValue after lastSet
  lastReturn,     \* history: what the last operation of the cache handed back
  deletedKeys,    \* history: keys deleted and not set again since
  ops,            \* sweeps, deletes and clears made so far
  apiCalls,       \* direct setCachedValue / getCachedValue calls made so far
  openaiApiKey,   \* !!config.OPENAI_API_KEY
  rejected,       \* article ids whose records the store refuses
  cat,            \* the categorize call in progress (categorizeArticles or the route)
  rf,             \* the fetchCategorizeAndCacheArticles call made directly
  serviceClient,  \* supabase.ts: the service client has been created
  dq,             \* the supabaseService.getData call in progress
  cleanupModule,  \* the revision of lib/cacheCleanup the process runs
  cl,             \* the cache cleanup scheduler and the sweeps in flight
  kw,             \* the categorizeArticleWithKeywords calls made on their own
  idc,            \* the item ids computed for a listing, at lookup and at persist
  dbi             \* sqliteCache.ts: the initialisation of the cache database

cfgVars == <<supabaseIsConfigured, schedulerFetchPages, configModule>>

schedVars == <<isJobRunning, tick, run, fetches, persists, releases>>

cacheCfgVars == <<ttlConfig, cleanupExpirationSeconds, dbType, db>>

cacheVars == <<cacheCfgVars, now, cacheTable, gca, lastSet, lastGet, lastReturn,
              deletedKeys, ops, apiCalls>>

catVars == <<openaiApiKey, rejected, cat>>

durVars == <<serviceClient, dq>>

clVars == <<cleanupModule, cl>>

pureVars == <<kw, idc>>

vars == <<cfgVars, schedVars, cacheVars, store, catVars, rf, durVars, clVars, pureVars, dbi>>

\* what the steps of each machine leave alone
schedFrame == <<cacheVars, store, catVars, rf, durVars, clVars, pureVars, dbi>>

cacheFrame == <<cfgVars, schedVars, store, catVars, rf, durVars, clVars, pureVars, dbi>>

catFrame == <<schedulerFetchPages, configModule, schedVars, cacheVars, rf, durVars, clVars, pureVars, dbi>>

durFrame == <<cfgVars, schedVars, cacheVars, store, catVars, rf, clVars, pureVars, dbi>>

clFrame == <<cfgVars, schedVars, store, catVars, rf, durVars, pureVars, dbi>>

(***************************************************************************)
(* Bounds of the model.                                                    *)
(***************************************************************************)
NumTicks == 2          \* cron callback invocations explored
MaxDirect == 2         \* requests for the refresh endpoint not made by a tick
MaxInitCalls == 3      \* operations that await initializeDatabase
MaxBatches == 2        \* categorize batches one refresh run may need
MaxCalls == 2          \* getCachedArticles calls explored
MaxTime == 2           \* seconds the clock runs
MaxOps == 1            \* sweeps, deletes and clears explored
MaxApiCalls == 2       \* direct setCachedValue / getCachedValue calls explored
MaxLen == 2            \* longest input of categorizeArticles
MaxQueries == 2        \* direct getData calls explored
MaxIntervals == 2      \* cleanup intervals the clock runs through
MaxSweepCalls == 2     \* runManualCleanup and clearCache calls explored
MaxKwCalls == 2        \* categorizeArticleWithKeywords calls explored
MaxIdCalls == 2        \* listings whose ids are computed
MaxLinkLen == 3        \* longest link whose id is computed

Ticks == 1..NumTicks

\* GET /api/articles/fetch-categorize-cache requested directly or through the
\* redirect of GET /cached
DirectCalls == (NumTicks + 1)..(NumTicks + MaxDirect)

\* every server-side run: those the ticks request and the direct ones
Runs == Ticks \cup DirectCalls

(***************************************************************************)
(* Strings.  A string is a sequence of one-character strings, so that       *)
(* substring search, lower-casing and base64 are computed, not assumed.     *)
(***************************************************************************)

\* printable ASCII in code order; PrintableAscii[i] has char code i + 31
\* (code 96 is held by a token that no modelled string contains)
PrintableAscii == <<
  " ", "!", "\"", "#", "$", "%", "&", "'", "(", ")", "*", "+", ",", "-",
  ".", "/", "0", "1", "2", "3", "4", "5", "6", "7", "8", "9", ":", ";",
  "<", "=", ">", "?", "@", "A", "B", "C", "D", "E", "F", "G", "H", "I",
  "J", "K", "L", "M", "N", "O", "P", "Q", "R", "S", "T", "U", "V", "W",
  "X", "Y", "Z", "[", "\\", "]", "^", "_", "<grave>", "a", "b", "c", "d", "e",
  "f", "g", "h", "i", "j", "k", "l", "m", "n", "o", "p", "q", "r", "s",
  "t", "u", "v", "w", "x", "y", "z", "{", "|", "}", "~"
>>

\* String.prototype.charCodeAt for the printable ASCII range
CharCode(c) == 31 + (CHOOSE i \in 1..Len(PrintableAscii) : PrintableAscii[i] = c)

\* String.prototype.toLowerCase: 'A'..'Z' (65..90) map to code + 32, and the
\* one capital outside ASCII that a keyword holds maps to its small letter
ToLowerChar(c) ==
  IF \E i \in 34..59 : PrintableAscii[i] = c
    THEN PrintableAscii[CharCode(c) - 31 + 32]
  ELSE IF c = "<U+00C3>" THEN "<U+00E3>"
  ELSE c

ToLowerCase(str) == [i \in 1..Len(str) |-> ToLowerChar(str[i])]

\* String.prototype.includes
Includes(text, word) ==
  \E i \in 0..(Len(text) - Len(word)) :
    \A j \in 1..Len(word) : text[i + j] = word[j]

\* the base64 alphabet of Buffer.toString('base64')
Base64Alphabet == <<
  "A", "B", "C", "D", "E", "F", "G", "H", "I", "J", "K", "L", "M", "N",
  "O", "P", "Q", "R", "S", "T", "U", "V", "W", "X", "Y", "Z", "a", "b",
  "c", "d", "e", "f", "g", "h", "i", "j", "k", "l", "m", "n", "o", "p",
  "q", "r", "s", "t", "u", "v", "w", "x", "y", "z", "0", "1", "2", "3",
  "4", "5", "6", "7", "8", "9", "+", "/"
>>

RECURSIVE Base64Encode(_)
\* Buffer.from(link).toString('base64') on a sequence of byte values
Base64Encode(b) ==
  IF Len(b) = 0 THEN <<>>
  ELSE IF Len(b) = 1 THEN
    << Base64Alphabet[(b[1] \div 4) + 1],
       Base64Alphabet[((b[1] % 4) * 16) + 1], "=", "=" >>
  ELSE IF Len(b) = 2 THEN
    << Base64Alphabet[(b[1] \div 4) + 1],
       Base64Alphabet[((b[1] % 4) * 16) + (b[2] \div 16) + 1],
       Base64Alphabet[((b[2] % 16) * 4) + 1], "=" >>
  ELSE
    << Base64Alphabet[(b[1] \div 4) + 1],
       Base64Alphabet[((b[1] % 4) * 16) + (b[2] \div 16) + 1],
       Base64Alphabet[((b[2] % 16) * 4) + (b[3] \div 64) + 1],
       Base64Alphabet[(b[3] % 64) + 1] >>
    \o Base64Encode(SubSeq(b, 4, Len(b)))

\* mutant of createArticleId: only the first two characters are encoded
createArticleId_Prefix(link) ==
  Base64Encode([i \in 1..(IF Len(link) < 2 THEN Len(link) ELSE 2) |-> CharCode(link[i])])

\* categorizeService.ts:102-105
createArticleId(link) == Base64Encode([i \in 1..Len(link) |-> CharCode(link[i])])

(***************************************************************************)
(* Refresh scheduler: lib/scheduler.ts and routes/articles.ts              *)
(***************************************************************************)

\* The module './config' resolves to.  `npm run build` (tsc) compiles
\* config.ts; `npm run dev` (ts-node-dev) resolves the import through
\* require, which tries the extension .js first and loads config.js.
ConfigModules == {"config.ts", "config.js"}

\* What the expression config.SERVICES.SUPABASE.IS_CONFIGURED evaluates to.
\* config.js:76-83 defines the flag.  In config.ts (lines 78-84)
\* SERVICES.SUPABASE is { URL, SERVICE_KEY, ANON_KEY } when both credentials
\* are set, so the property is undefined, and is undefined itself otherwise,
\* so reading the property throws a TypeError.
SupabaseIsConfiguredRead ==
  IF configModule = "config.js"
    THEN (IF supabaseIsConfigured THEN "true" ELSE "false")
  ELSE IF supabaseIsConfigured THEN "undefined" ELSE "TypeError"

\* the error `if (!config.SERVICES.SUPABASE.IS_CONFIGURED) throw ...` ends
\* with (articlesService.ts:136-138, 256-258); "none" when it falls through
ConfigCheckError ==
  CASE SupabaseIsConfiguredRead = "true" -> "none"
    [] SupabaseIsConfiguredRead = "TypeError" -> "TypeError"
    [] OTHER -> "Cache service unavailable"

\* scheduler.ts:40  Math.min(config.SCHEDULER_FETCH_PAGES || 1, 2)
SchedulerPageCap == 2
Min(a, b) == IF a < b THEN a ELSE b

\* A server-side run as the scheduler sees it: its phase, the categorize
\* batches not yet sent (articlesService.ts:305-308), whether one is in flight,
\* and whether any batch has contributed categorized articles so far.
NoRun == [phase |-> "none", pages |-> 0, batches |-> 0, inflight |-> FALSE,
          categorized |-> FALSE]

RunActivePhases == {"fetching", "categorizing"}

RunEndedPhases == {"ok", "failed"}

\* Mutant of CronTickSkip: the skipping tick also clears the flag.
CronTickSkip_ClearsFlag(t) ==
  /\ tick[t] = "pending"
  /\ \A u \in Ticks : u < t => tick[u] # "pending"
  /\ isJobRunning
  /\ tick' = [tick EXCEPT ![t] = "skipped"]
  /\ isJobRunning' = FALSE
  /\ UNCHANGED <<cfgVars, run, fetches, persists, releases>>
  /\ UNCHANGED schedFrame

\* scheduler.ts:25-28  a tick that finds the flag set logs and returns
CronTickSkip(t) ==
  /\ tick[t] = "pending"
  /\ \A u \in Ticks : u < t => tick[u] # "pending"
  /\ isJobRunning
  /\ tick' = [tick EXCEPT ![t] = "skipped"]
  /\ UNCHANGED <<cfgVars, isJobRunning, run, fetches, persists, releases>>
  /\ UNCHANGED schedFrame

\* scheduler.ts:30-53  set the flag, build the URL, issue axios.get with a 60 s timeout
CronTickStart(t) ==
  /\ tick[t] = "pending"
  /\ \A u \in Ticks : u < t => tick[u] # "pending"
  /\ ~isJobRunning
  /\ isJobRunning' = TRUE
  /\ tick' = [tick EXCEPT ![t] = "awaiting"]
  /\ run' = [run EXCEPT ![t] = [NoRun EXCEPT !.phase = "requested",
                 !.pages = Min(IF schedulerFetchPages = 0 THEN 1 ELSE schedulerFetchPages,
                               SchedulerPageCap)]]
  /\ UNCHANGED <<cfgVars, fetches, persists, releases>>
  /\ UNCHANGED schedFrame

\* scheduler.ts:70-73  finally { isJobRunning = false }
ReleaseLock(t) ==
  /\ isJobRunning' = FALSE
  /\ tick' = [tick EXCEPT ![t] = "done"]
  /\ releases' = [releases EXCEPT ![t] = @ + 1]

\* scheduler.ts:47-58 (200) and 59-69 (500 from the handler's catch), then finally
CronTickResponse(t) ==
  /\ tick[t] = "awaiting"
  /\ run[t].phase \in RunEndedPhases
  /\ ReleaseLock(t)
  /\ UNCHANGED <<cfgVars, run, fetches, persists>>
  /\ UNCHANGED schedFrame

\* Mutant of CronTickTimeout: the rejection escapes without the finally block.
CronTickTimeout_NoFinally(t) ==
  /\ tick[t] = "awaiting"
  /\ run[t].phase \notin RunEndedPhases
  /\ tick' = [tick EXCEPT ![t] = "done"]
  /\ UNCHANGED <<cfgVars, isJobRunning, run, fetches, persists, releases>>
  /\ UNCHANGED schedFrame

\* scheduler.ts:48 timeout: 60000 -- axios rejects while the handler is still
\* working; catch logs, finally clears the flag; the server-side run goes on
CronTickTimeout(t) ==
  /\ tick[t] = "awaiting"
  /\ run[t].phase \notin RunEndedPhases
  /\ ReleaseLock(t)
  /\ UNCHANGED <<cfgVars, run, fetches, persists>>
  /\ UNCHANGED schedFrame

\* scheduler.ts:59-69  the request never reaches the server (connection error)
CronTickRequestError(t) ==
  /\ tick[t] = "awaiting"
  /\ run[t].phase = "requested"
  /\ run' = [run EXCEPT ![t] = NoRun]
  /\ ReleaseLock(t)
  /\ UNCHANGED <<cfgVars, fetches, persists>>
  /\ UNCHANGED schedFrame

\* routes/articles.ts:75-78, 134-140: a client requests the refresh endpoint
\* itself, or GET /cached found fewer than minCached articles and redirects
\* the client to it with maxPages = fallbackPages; the route reads no flag
DirectRequest(d) ==
  /\ run[d].phase = "none"
  /\ \E pages \in 1..SchedulerPageCap :
       run' = [run EXCEPT ![d] = [NoRun EXCEPT !.phase = "requested", !.pages = pages]]
  /\ UNCHANGED <<cfgVars, isJobRunning, tick, fetches, persists, releases>>
  /\ UNCHANGED schedFrame

\* routes/articles.ts:75-90 and articlesService.ts:250-283: the handler parses
\* maxPages, the service checks the configuration and issues every page fetch
HandlerStart(t) ==
  /\ run[t].phase = "requested"
  /\ IF ConfigCheckError # "none"
       THEN /\ run' = [run EXCEPT ![t].phase = "failed"]
            /\ UNCHANGED fetches
       ELSE /\ run' = [run EXCEPT ![t].phase = "fetching"]
            /\ fetches' = [fetches EXCEPT ![t] = @ + run[t].pages]
  /\ UNCHANGED <<cfgVars, isJobRunning, tick, persists, releases>>
  /\ UNCHANGED schedFrame

\* articlesService.ts:286-310  Promise.all settles; a failed page counts as [];
\* zero items in total throws 'No articles found', otherwise the items are
\* sliced into batches
RunFetched(t) ==
  /\ run[t].phase = "fetching"
  /\ \/ run' = [run EXCEPT ![t].phase = "failed"]
     \/ \E n \in 1..MaxBatches :
          run' = [run EXCEPT ![t].phase = "categorizing", ![t].batches = n]
  /\ UNCHANGED <<cfgVars, isJobRunning, tick, fetches, persists, releases>>
  /\ UNCHANGED schedFrame

\* articlesService.ts:317-329  POST /api/categorize for the next batch
RunBatchSend(t) ==
  /\ run[t].phase = "categorizing"
  /\ ~run[t].inflight
  /\ run[t].batches > 0
  /\ run' = [run EXCEPT ![t].inflight = TRUE, ![t].batches = @ - 1]
  /\ persists' = [persists EXCEPT ![t] = @ + 1]
  /\ UNCHANGED <<cfgVars, isJobRunning, tick, fetches, releases>>
  /\ UNCHANGED schedFrame

\* articlesService.ts:331-368  the batch's response: not ok or a throw skips the
\* batch, otherwise its categorized articles are merged
RunBatchDone(t) ==
  /\ run[t].phase = "categorizing"
  /\ run[t].inflight
  /\ \E ok \in BOOLEAN :
       run' = [run EXCEPT ![t].inflight = FALSE,
                          ![t].categorized = @ \/ ok]
  /\ UNCHANGED <<cfgVars, isJobRunning, tick, fetches, persists, releases>>
  /\ UNCHANGED schedFrame

\* articlesService.ts:371-397  zero categorized throws, otherwise success
RunFinish(t) ==
  /\ run[t].phase = "categorizing"
  /\ ~run[t].inflight
  /\ run[t].batches = 0
  /\ run' = [run EXCEPT ![t].phase =
               IF run[t].categorized THEN "ok" ELSE "failed"]
  /\ UNCHANGED <<cfgVars, isJobRunning, tick, fetches, persists, releases>>
  /\ UNCHANGED schedFrame

(***************************************************************************)
(* Listings and Durable Store rows: types, services/supabase.ts            *)
(***************************************************************************)

\* The listings the model feeds to the services.  title, description and
\* link are character sequences; the other fields are opaque.
Listing(title, description, link) ==
  [title |-> title, description |-> description, price |-> "10",
   shippingPrice |-> "0", image |-> "img", link |-> link]

ListingTv == Listing(<<"S", "m", "a", "r", "t", " ", "T", "V">>, <<>>, <<"a">>)

ListingBikeMat ==
  Listing(<<"B", "i", "k", "e", " ", "m", "a", "t">>, <<"n", "e", "w">>, <<"b">>)

ListingPlain == Listing(<<"X", "y", "z">>, <<"q">>, <<"c">>)

\* services/supabase.ts:147-149
createUniqueId(link) == Base64Encode([i \in 1..Len(link) |-> CharCode(link[i])])

\* services/supabase.ts:156-165
toArticle(cachedArticle) ==
  [title |-> cachedArticle.title, description |-> cachedArticle.description,
   price |-> cachedArticle.price, shippingPrice |-> cachedArticle.shipping_price,
   image |-> cachedArticle.image, link |-> cachedArticle.link]

\* services/supabase.ts:173-191
toCategorizedArticle(article, category) ==
  [article_id |-> createUniqueId(article.link), title |-> article.title,
   description |-> article.description, price |-> article.price,
   shipping_price |-> article.shippingPrice, image |-> article.image,
   link |-> article.link, category |-> category]

\* A stored row: the record plus the created_at column the table fills in.
\* created_at counts whole days relative to today (0 = today, -3 = 3 days ago).
StoredRow(article, category, createdAt) ==
  [c \in {"created_at"} |-> createdAt] @@ toCategorizedArticle(article, category)

\* contents of categorized_articles the cache orchestrator is run against
StoreSeeds ==
  { {},
    { StoredRow(ListingTv, "Electronics", 0),
      StoredRow(ListingBikeMat, "Sports & Outdoor", -3) } }

(***************************************************************************)
(* Ephemeral cache: lib/sqliteCache.ts and services/cacheService.ts        *)
(***************************************************************************)

\* JavaScript null
Null == [null |-> TRUE]

\* JSON.stringify / JSON.parse.  Every payload the services cache is built of
\* strings, numbers, booleans, arrays and plain objects (or is null), for
\* which parse(stringify(v)) is a deep copy of v; the JSON text is kept as a
\* tagged tuple.
JsonStringify(v) == <<"json", v>>

JsonParse(text) == text[2]

\* the parameter names callers pass, in Array.prototype.sort() order
FieldOrder == <<"key", "ttl">>

RECURSIVE JoinParams(_, _)
\* sqliteCache.ts:129  Object.keys(params).sort().map(k => `${k}:${params[k]}`).join('|')
JoinParams(params, i) ==
  IF i > Len(FieldOrder) THEN <<>>
  ELSE LET k == FieldOrder[i]
           rest == JoinParams(params, i + 1)
       IN IF k \in DOMAIN params
            THEN <<k, ":">> \o params[k]
                   \o (IF rest = <<>> THEN <<>> ELSE <<"|">> \o rest)
            ELSE rest

\* sqliteCache.ts:128-131.  md5 is taken to be collision free on the joined
\* strings, so the digest is identified with the string it digests.
generateRequestHash(params) == JoinParams(params, 1)

\* sqliteCache.ts:38-121: a backend that initialises leaves a handle in db.
\* With neither backend either both modules fail to load, db stays null and
\* every later call runs the initialisation again and is rejected (114-119),
\* or sqlite3 loads and fails to open the file, which leaves the handle in db
\* with dbType 'none' (78-82) and later calls resolve with that pair (40).
DbHandles(type) == IF type = "none" THEN BOOLEAN ELSE {TRUE}

initializeDatabaseRejects == ~db

\* mutant of OperationCatches: the rejection of initializeDatabase escapes
OperationCatches_Not == FALSE

\* sqliteCache.ts:140/174-177, 187/232-235, 244/277-280: every operation
\* awaits initializeDatabase inside its own try/catch
OperationCatches == TRUE

NoReturn == [op |-> "none", raised |-> FALSE, ok |-> FALSE, deleted |-> 0]

\* what an operation hands its caller: a rejection that escapes it, or the
\* value it resolves with (a hit or a success flag, the rows deleted)
Return(op, ok, deleted) ==
  IF initializeDatabaseRejects /\ ~OperationCatches
    THEN [op |-> op, raised |-> TRUE, ok |-> FALSE, deleted |-> 0]
    ELSE [op |-> op, raised |-> FALSE, ok |-> ok, deleted |-> deleted]

\* sqliteCache.ts:139-178: the table after INSERT OR REPLACE; without a
\* database handle (dbType 'none') nothing is written and false is returned
cacheDataSucceeds == dbType # "none"

cacheData(table, params, data) ==
  IF ~cacheDataSucceeds THEN table
  ELSE LET h == generateRequestHash(params)
       IN {r \in table : r.request_hash # h}
            \cup {[request_hash |-> h, data |-> JsonStringify(data),
                   created_at |-> now]}

\* sqliteCache.ts:186-236  SELECT ... WHERE request_hash = ? AND created_at > ?
getCachedData(table, params, maxAgeSeconds) ==
  LET h == generateRequestHash(params)
      minTimestamp == now - maxAgeSeconds
      rows == {r \in table : r.request_hash = h /\ r.created_at > minTimestamp}
  IN IF dbType = "none" \/ rows = {} THEN Null
     ELSE JsonParse((CHOOSE r \in rows : TRUE).data)

\* sqliteCache.ts:243-285  DELETE FROM articles_cache WHERE created_at <= ?
cleanupExpiredCache(table, maxAgeSeconds) ==
  IF dbType = "none" THEN table
  ELSE {r \in table : ~(r.created_at <= now - maxAgeSeconds)}

\* template literals and string parameters render a number in decimal
NumStr(n) == <<ToString(n)>>

\* cacheService.ts:35-47
getCachedValue(table, key) == getCachedData(table, [key |-> key], ttlConfig)

\* cacheService.ts:56-68
setCachedValue(table, key, value, ttl) ==
  cacheData(table, [key |-> key, ttl |-> NumStr(ttl)], value)

\* mutant of deleteCachedValue: nothing is written
deleteCachedValue_Noop(table, key) == table

\* cacheService.ts:75-87 (cacheData ignores the third argument)
deleteCachedValue(table, key) == cacheData(table, [key |-> key], Null)

\* cacheService.ts:93-106
clearCache(table) == cleanupExpiredCache(table, 1)

(***************************************************************************)
(* Cache orchestrator: services/articlesService.ts getCachedArticles       *)
(***************************************************************************)

\* config.ts:35
DAYS_TO_CACHE == 7

\* config.ts:36
MAX_RESULTS == 500

\* routes/articles.ts:120: the limit above which GET /cached answers 400
\* before it calls the service
ROUTE_MAX_LIMIT == 1000

\* the options.days / options.limit values explored; 0 stands for an absent
\* (or zero) option, which `||` replaces by the default
\* the TTLs (seconds) configured or passed to setCachedValue
TtlValues == {2, 3}

DaysInputs == {0, 1}

LimitInputs == {0, MAX_RESULTS + 1}

\* articlesService.ts:148  `articles_cached_days_${days}_limit_${limit}`
ArticlesCacheKey(days, limit) ==
  <<"articles_cached_days_">> \o NumStr(days) \o <<"_limit_">> \o NumStr(limit)

CacheKeys ==
  {ArticlesCacheKey(d, MAX_RESULTS) : d \in {DAYS_TO_CACHE, 1}}

\* what the query of articlesService.ts:180-191 may return: the rows with
\* created_at >= oldestDate, newest first, at most `limit` of them
QueryResults(days, limit) ==
  LET matching == {r \in store : r.created_at >= 0 - days}
      n == Cardinality(matching)
      sorted == {s \in [1..n -> matching] :
                   /\ \A i, j \in 1..n : i # j => s[i] # s[j]
                   /\ \A i, j \in 1..n : i < j => s[i].created_at >= s[j].created_at}
  IN {SubSeq(s, 1, Min(limit, n)) : s \in sorted}

RECURSIVE KeysInOrder(_)
\* Object.keys(categorizedArticles): categories in order of first appearance
KeysInOrder(data) ==
  IF data = <<>> THEN <<>>
  ELSE LET front == KeysInOrder(SubSeq(data, 1, Len(data) - 1))
           c == data[Len(data)].category
       IN IF \E i \in 1..Len(front) : front[i] = c THEN front
          ELSE Append(front, c)

\* articlesService.ts:194-224
BuildResult(data, days) ==
  LET categories == KeysInOrder(data)
      articles == [i \in 1..Len(data) |-> toArticle(data[i])]
      ofCategory(c) ==
        LET idx == {i \in 1..Len(data) : data[i].category = c}
            pick[k \in 0..Len(data)] ==
              IF k = 0 THEN <<>>
              ELSE IF k \in idx THEN Append(pick[k - 1], articles[k])
              ELSE pick[k - 1]
        IN pick[Len(data)]
  IN [categorizedArticles |->
        [c \in {categories[i] : i \in 1..Len(categories)} |-> ofCategory(c)],
      stats |->
        [totalArticles |-> Len(data),
         categories |-> categories,
         categoriesCount |-> Len(categories),
         daysRetrieved |-> days,
         fromDate |-> 0 - days,
         fromCache |-> TRUE,
         fromLocalCache |-> FALSE,
         minCachedRequirement |-> NumStr(Len(data)) \o <<"/", "undefined">>]]

\* articlesService.ts:155-157  if (cachedResult.stats) stats.fromLocalCache = true
TagFromLocalCache(cachedResult) ==
  IF "stats" \in DOMAIN cachedResult
    THEN [cachedResult EXCEPT !.stats.fromLocalCache = TRUE]
    ELSE cachedResult

NoCall ==
  [pc |-> "idle", id |-> 0, days |-> 0, limit |-> 0, skipLocalCache |-> FALSE,
   due |-> FALSE, lookup |-> Null, queries |-> 0, writes |-> 0,
   result |-> Null, error |-> "none"]

NoSet == [live |-> FALSE, by |-> 0, key |-> <<>>, ttl |-> 0, at |-> 0, value |-> Null]

NoGet == [valid |-> FALSE, key |-> <<>>, at |-> 0, value |-> Null]

GcaSettled == gca.pc \in {"idle", "returned", "threw"}

\* history: at this lookup an earlier call's write-through of the same key is
\* younger than the TTL, and no sweep, delete or clear came after it
WriteThroughDue(cacheKey) ==
  /\ lastSet.live
  /\ lastSet.by > 0
  /\ lastSet.by < gca.id
  /\ lastSet.key = cacheKey
  /\ now < lastSet.at + ttlConfig

\* mutant of GcaCall: the limit is not checked against the ceiling
GcaCall_NoCeiling(d, l, skip) ==
  /\ GcaSettled
  /\ gca.id < MaxCalls
  /\ LET days == IF d = 0 THEN DAYS_TO_CACHE ELSE d
         limit == IF l = 0 THEN MAX_RESULTS ELSE l
         call == [NoCall EXCEPT !.id = gca.id + 1, !.days = days, !.limit = limit,
                                !.skipLocalCache = skip]
     IN gca' =
          IF ConfigCheckError # "none"
            THEN [call EXCEPT !.pc = "threw", !.error = ConfigCheckError]
          ELSE IF skip
            THEN [call EXCEPT !.pc = "query", !.queries = 1]
          ELSE [call EXCEPT !.pc = "lookup"]
  /\ UNCHANGED <<cacheCfgVars, deletedKeys, lastReturn, now, cacheTable, lastSet, lastGet, ops, apiCalls>>
  /\ UNCHANGED cacheFrame

\* articlesService.ts:126-142: defaults, limit ceiling, configuration check
GcaCall(d, l, skip) ==
  /\ GcaSettled
  /\ gca.id < MaxCalls
  /\ LET days == IF d = 0 THEN DAYS_TO_CACHE ELSE d
         limit == IF l = 0 THEN MAX_RESULTS ELSE l
         call == [NoCall EXCEPT !.id = gca.id + 1, !.days = days, !.limit = limit,
                                !.skipLocalCache = skip]
     IN gca' =
          IF limit > MAX_RESULTS
            THEN [call EXCEPT !.pc = "threw", !.error = "Invalid request"]
          ELSE IF ConfigCheckError # "none"
            THEN [call EXCEPT !.pc = "threw", !.error = ConfigCheckError]
          ELSE IF skip
            THEN [call EXCEPT !.pc = "query", !.queries = 1]
          ELSE [call EXCEPT !.pc = "lookup"]
  /\ UNCHANGED <<cacheCfgVars, deletedKeys, lastReturn, now, cacheTable, lastSet, lastGet, ops, apiCalls>>
  /\ UNCHANGED cacheFrame

\* mutant of GcaLookup: a hit is tagged but the durable query is issued anyway
GcaLookup_QueryOnHit ==
  /\ gca.pc = "lookup"
  /\ LET cachedResult == getCachedValue(cacheTable, ArticlesCacheKey(gca.days, gca.limit))
     IN gca' = [gca EXCEPT !.pc = "query", !.queries = 1,
                           !.due = WriteThroughDue(ArticlesCacheKey(gca.days, gca.limit)),
                           !.lookup = cachedResult,
                           !.result = IF cachedResult # Null
                                        THEN TagFromLocalCache(cachedResult)
                                        ELSE Null]
  /\ UNCHANGED <<cacheCfgVars, deletedKeys, lastReturn, now, cacheTable, lastSet, lastGet, ops, apiCalls>>
  /\ UNCHANGED cacheFrame

\* articlesService.ts:145-170: the ephemeral lookup; a hit returns at once,
\* a miss goes on to issue the durable query
GcaLookup ==
  /\ gca.pc = "lookup"
  /\ LET cacheKey == ArticlesCacheKey(gca.days, gca.limit)
         cachedResult == getCachedValue(cacheTable, cacheKey)
     IN gca' =
          IF cachedResult # Null
            THEN [gca EXCEPT !.pc = "returned", !.due = WriteThroughDue(cacheKey),
                             !.lookup = cachedResult,
                             !.result = TagFromLocalCache(cachedResult)]
            ELSE [gca EXCEPT !.pc = "query", !.due = WriteThroughDue(cacheKey),
                             !.queries = 1]
  /\ lastReturn' = Return("get",
                          getCachedValue(cacheTable,
                            ArticlesCacheKey(gca.days, gca.limit)) # Null, 0)
  /\ UNCHANGED <<cacheCfgVars, deletedKeys, now, cacheTable, lastSet, lastGet, ops, apiCalls>>
  /\ UNCHANGED cacheFrame

\* articlesService.ts:179-226, 239-242: the query settles; an error is
\* rethrown, a result is built and, if non-empty, queued for write-through
GcaQuery ==
  /\ gca.pc = "query"
  /\ \/ gca' = [gca EXCEPT !.pc = "threw", !.error = "Failed to fetch cached articles"]
     \/ \E data \in QueryResults(gca.days, gca.limit) :
          gca' = [gca EXCEPT !.result = BuildResult(data, gca.days),
                             !.pc = IF ~gca.skipLocalCache /\ Len(data) > 0
                                      THEN "store" ELSE "returned"]
  /\ UNCHANGED <<cacheCfgVars, deletedKeys, lastReturn, now, cacheTable, lastSet, lastGet, ops, apiCalls>>
  /\ UNCHANGED cacheFrame

\* mutant of GcaStore: a write-through that stores nothing fails the call
GcaStore_FailureThrows ==
  /\ gca.pc = "store"
  /\ LET cacheKey == ArticlesCacheKey(gca.days, gca.limit)
     IN /\ cacheTable' = setCachedValue(cacheTable, cacheKey, gca.result, ttlConfig)
        /\ IF cacheDataSucceeds
             THEN /\ lastSet' = [live |-> TRUE, by |-> gca.id, key |-> cacheKey,
                                 ttl |-> ttlConfig, at |-> now, value |-> gca.result]
                  /\ lastGet' = NoGet
                  /\ gca' = [gca EXCEPT !.pc = "returned", !.writes = 1]
             ELSE /\ UNCHANGED <<lastSet, lastGet>>
                  /\ gca' = [gca EXCEPT !.pc = "threw", !.result = Null,
                                        !.error = "Failed to fetch cached articles"]
  /\ lastReturn' = Return("set", cacheDataSucceeds, 0)
  /\ deletedKeys' = deletedKeys \ {ArticlesCacheKey(gca.days, gca.limit)}
  /\ UNCHANGED <<cacheCfgVars, now, ops, apiCalls>>
  /\ UNCHANGED cacheFrame

\* articlesService.ts:227-238: write-through with the configured TTL
GcaStore ==
  /\ gca.pc = "store"
  /\ LET cacheKey == ArticlesCacheKey(gca.days, gca.limit)
     IN /\ cacheTable' = setCachedValue(cacheTable, cacheKey, gca.result, ttlConfig)
        /\ IF cacheDataSucceeds
             THEN /\ lastSet' = [live |-> TRUE, by |-> gca.id, key |-> cacheKey,
                                 ttl |-> ttlConfig, at |-> now, value |-> gca.result]
                  /\ lastGet' = NoGet
                  /\ gca' = [gca EXCEPT !.pc = "returned", !.writes = 1]
             ELSE /\ UNCHANGED <<lastSet, lastGet>>
                  /\ gca' = [gca EXCEPT !.pc = "returned"]
  /\ lastReturn' = Return("set", cacheDataSucceeds, 0)
  /\ deletedKeys' = deletedKeys \ {ArticlesCacheKey(gca.days, gca.limit)}
  /\ UNCHANGED <<cacheCfgVars, now, ops, apiCalls>>
  /\ UNCHANGED cacheFrame

\* the clock: whole seconds pass between any two steps
AdvanceClock ==
  /\ now < MaxTime
  /\ now' = now + 1
  /\ UNCHANGED <<cacheCfgVars, deletedKeys, lastReturn, cacheTable, gca, lastSet, lastGet, ops, apiCalls>>
  /\ UNCHANGED cacheFrame

\* cacheCleanup.js:14-30: the periodic sweep
CleanupSweep ==
  /\ ops < MaxOps
  /\ cacheTable' = cleanupExpiredCache(cacheTable, cleanupExpirationSeconds)
  /\ lastSet' = [lastSet EXCEPT !.live = FALSE]
  /\ ops' = ops + 1
  /\ lastReturn' = Return("cleanup", FALSE, Cardinality(cacheTable) - Cardinality(cacheTable'))
  /\ UNCHANGED <<cacheCfgVars, deletedKeys, now, gca, lastGet, apiCalls>>
  /\ UNCHANGED cacheFrame

\* cacheService.ts:56-68 called on its own, with an explicit ttl
ApiSetCachedValue(key, ttl) ==
  /\ apiCalls < MaxApiCalls
  /\ cacheTable' = setCachedValue(cacheTable, key, [probe |-> ttl], ttl)
  /\ IF cacheDataSucceeds
       THEN /\ lastSet' = [live |-> TRUE, by |-> 0, key |-> key, ttl |-> ttl,
                           at |-> now, value |-> [probe |-> ttl]]
            /\ lastGet' = NoGet
       ELSE UNCHANGED <<lastSet, lastGet>>
  /\ apiCalls' = apiCalls + 1
  /\ lastReturn' = Return("set", cacheDataSucceeds, 0)
  /\ deletedKeys' = deletedKeys \ {key}
  /\ UNCHANGED <<cacheCfgVars, now, gca, ops>>
  /\ UNCHANGED cacheFrame

\* mutant of ApiGetCachedValue: a read drops the expired row it meets
ApiGetCachedValue_EvictsExpired(key) ==
  /\ apiCalls < MaxApiCalls
  /\ lastGet' = [valid |-> TRUE, key |-> key, at |-> now,
                 value |-> getCachedValue(cacheTable, key)]
  /\ apiCalls' = apiCalls + 1
  /\ lastReturn' = Return("get", getCachedValue(cacheTable, key) # Null, 0)
  /\ cacheTable' = {r \in cacheTable :
                      ~(/\ r.request_hash = generateRequestHash([key |-> key])
                        /\ r.created_at <= now - ttlConfig)}
  /\ UNCHANGED <<cacheCfgVars, deletedKeys, now, gca, lastSet, ops>>
  /\ UNCHANGED cacheFrame

\* cacheService.ts:35-47 called on its own
ApiGetCachedValue(key) ==
  /\ apiCalls < MaxApiCalls
  /\ lastGet' = [valid |-> TRUE, key |-> key, at |-> now,
                 value |-> getCachedValue(cacheTable, key)]
  /\ apiCalls' = apiCalls + 1
  /\ lastReturn' = Return("get", getCachedValue(cacheTable, key) # Null, 0)
  /\ UNCHANGED <<cacheCfgVars, deletedKeys, now, cacheTable, gca, lastSet, ops>>
  /\ UNCHANGED cacheFrame

\* cacheService.ts:75-87
ApiDeleteCachedValue(key) ==
  /\ ops < MaxOps
  /\ cacheTable' = deleteCachedValue(cacheTable, key)
  /\ lastSet' = [lastSet EXCEPT !.live = FALSE]
  /\ ops' = ops + 1
  /\ lastReturn' = Return("delete", cacheDataSucceeds, 0)
  /\ deletedKeys' = deletedKeys \cup {key}
  /\ UNCHANGED <<cacheCfgVars, now, gca, lastGet, apiCalls>>
  /\ UNCHANGED cacheFrame

\* cacheService.ts:93-106
ApiClearCache ==
  /\ ops < MaxOps
  /\ cacheTable' = clearCache(cacheTable)
  /\ lastSet' = [lastSet EXCEPT !.live = FALSE]
  /\ ops' = ops + 1
  /\ lastReturn' = Return("clear", TRUE, Cardinality(cacheTable) - Cardinality(cacheTable'))
  /\ UNCHANGED <<cacheCfgVars, deletedKeys, now, gca, lastGet, apiCalls>>
  /\ UNCHANGED cacheFrame

\* cache/local_cache.db outlives the process (sqliteCache.ts:31, 52-64:
\* CREATE TABLE IF NOT EXISTS), so a process may start on rows an earlier
\* process left: none, or a getCachedArticles result filed under the
\* fingerprint that getCachedValue looks up.
PersistedTables ==
  {{}} \cup
  { {[request_hash |-> generateRequestHash(
                         [key |-> ArticlesCacheKey(DAYS_TO_CACHE, MAX_RESULTS)]),
      data |-> JsonStringify(BuildResult(data, DAYS_TO_CACHE)),
      created_at |-> 0]} :
    data \in {d \in QueryResults(DAYS_TO_CACHE, MAX_RESULTS) : Len(d) > 0} }

(***************************************************************************)
(* Categorization: services/categorizeService.ts                           *)
(***************************************************************************)

\* categorizeService.ts:7-20
predefinedCategories ==
  <<"Electronics", "Home & Household", "Fashion", "Food & Grocery",
    "Sports & Outdoor", "Beauty & Health", "Travel", "Entertainment",
    "Kids & Toys", "Automotive", "Services", "Other Deals">>

PredefinedCategorySet ==
  {predefinedCategories[i] : i \in 1..Len(predefinedCategories)}

\* categorizeService.ts:156-219, in declaration order
categoryKeywords == <<
  [category |-> "Electronics", keywords |-> <<
       <<"p", "h", "o", "n", "e">>,
       <<"s", "m", "a", "r", "t", "p", "h", "o", "n", "e">>,
       <<"i", "p", "h", "o", "n", "e">>,
       <<"s", "a", "m", "s", "u", "n", "g">>,
       <<"l", "a", "p", "t", "o", "p">>,
       <<"c", "o", "m", "p", "u", "t", "e", "r">>, <<"p", "c">>,
       <<"m", "o", "n", "i", "t", "o", "r">>, <<"t", "v">>,
       <<"t", "e", "l", "e", "v", "i", "s", "i", "o", "n">>,
       <<"s", "m", "a", "r", "t">>,
       <<"e", "l", "e", "c", "t", "r", "o", "n", "i", "c">>,
       <<"d", "e", "v", "i", "c", "e">>, <<"g", "a", "d", "g", "e", "t">>,
       <<"t", "e", "c", "h">>, <<"s", "p", "e", "a", "k", "e", "r">>,
       <<"h", "e", "a", "d", "p", "h", "o", "n", "e">>,
       <<"e", "a", "r", "b", "u", "d", "s">>, <<"a", "u", "d", "i", "o">>,
       <<"v", "i", "d", "e", "o">>, <<"c", "a", "m", "e", "r", "a">>,
       <<"g", "a", "m", "i", "n", "g">>,
       <<"c", "o", "n", "s", "o", "l", "e">>,
       <<"p", "l", "a", "y", "s", "t", "a", "t", "i", "o", "n">>,
       <<"x", "b", "o", "x">>, <<"n", "i", "n", "t", "e", "n", "d", "o">>,
       <<"w", "i", "r", "e", "l", "e", "s", "s">>,
       <<"b", "l", "u", "e", "t", "o", "o", "t", "h">>,
       <<"c", "h", "a", "r", "g", "i", "n", "g">>,
       <<"t", "a", "b", "l", "e", "t">>, <<"i", "p", "a", "d">>,
       <<"k", "e", "y", "b", "o", "a", "r", "d">>,
       <<"m", "o", "u", "s", "e">>, <<"r", "o", "u", "t", "e", "r">>,
       <<"w", "i", "f", "i">>, <<"p", "r", "i", "n", "t", "e", "r">> >>],
  [category |-> "Home & Household", keywords |-> <<
       <<"f", "u", "r", "n", "i", "t", "u", "r", "e">>,
       <<"h", "o", "m", "e">>, <<"k", "i", "t", "c", "h", "e", "n">>,
       <<"b", "a", "t", "h", "r", "o", "o", "m">>,
       <<"b", "e", "d", "r", "o", "o", "m">>,
       <<"l", "i", "v", "i", "n", "g">>, <<"h", "o", "u", "s", "e">>,
       <<"g", "a", "r", "d", "e", "n">>, <<"p", "a", "t", "i", "o">>,
       <<"d", "<U+00C3>", "<U+00A9>", "c", "o", "r">>,
       <<"d", "e", "c", "o", "r", "a", "t", "i", "o", "n">>,
       <<"a", "p", "p", "l", "i", "a", "n", "c", "e">>,
       <<"c", "l", "e", "a", "n", "i", "n", "g">>,
       <<"v", "a", "c", "u", "u", "m">>, <<"c", "h", "a", "i", "r">>,
       <<"t", "a", "b", "l", "e">>, <<"s", "o", "f", "a">>,
       <<"b", "e", "d">>, <<"m", "a", "t", "t", "r", "e", "s", "s">>,
       <<"p", "i", "l", "l", "o", "w">>,
       <<"c", "u", "r", "t", "a", "i", "n", "s">>, <<"l", "a", "m", "p">>,
       <<"l", "i", "g", "h", "t", "i", "n", "g">>,
       <<"c", "o", "o", "k", "w", "a", "r", "e">>,
       <<"u", "t", "e", "n", "s", "i", "l", "s">>,
       <<"d", "i", "s", "h", "e", "s">>,
       <<"s", "t", "o", "r", "a", "g", "e">>,
       <<"o", "r", "g", "a", "n", "i", "z", "e", "r">>,
       <<"t", "o", "o", "l", "s">>, <<"l", "a", "w", "n">>,
       <<"p", "l", "a", "n", "t", "s">>, <<"b", "b", "q">>,
       <<"g", "r", "i", "l", "l">> >>],
  [category |-> "Fashion", keywords |-> <<
       <<"c", "l", "o", "t", "h", "i", "n", "g">>,
       <<"c", "l", "o", "t", "h", "e", "s">>,
       <<"f", "a", "s", "h", "i", "o", "n">>, <<"w", "e", "a", "r">>,
       <<"d", "r", "e", "s", "s">>, <<"s", "h", "i", "r", "t">>,
       <<"p", "a", "n", "t", "s">>, <<"j", "e", "a", "n", "s">>,
       <<"j", "a", "c", "k", "e", "t">>, <<"c", "o", "a", "t">>,
       <<"s", "h", "o", "e", "s">>,
       <<"s", "n", "e", "a", "k", "e", "r", "s">>,
       <<"b", "o", "o", "t", "s">>, <<"s", "a", "n", "d", "a", "l", "s">>,
       <<"a", "c", "c", "e", "s", "s", "o", "r", "y">>,
       <<"a", "c", "c", "e", "s", "s", "o", "r", "i", "e", "s">>,
       <<"w", "a", "t", "c", "h">>, <<"j", "e", "w", "e", "l", "r", "y">>,
       <<"b", "a", "g">>, <<"h", "a", "n", "d", "b", "a", "g">>,
       <<"b", "a", "c", "k", "p", "a", "c", "k">>,
       <<"w", "a", "l", "l", "e", "t">>, <<"b", "e", "l", "t">>,
       <<"h", "a", "t">>, <<"c", "a", "p">>, <<"s", "c", "a", "r", "f">>,
       <<"g", "l", "o", "v", "e", "s">>, <<"s", "o", "c", "k", "s">>,
       <<"u", "n", "d", "e", "r", "w", "e", "a", "r">>,
       <<"t", "-", "s", "h", "i", "r", "t">>,
       <<"s", "h", "o", "r", "t", "s">>, <<"h", "o", "o", "d", "i", "e">>,
       <<"s", "w", "e", "a", "t", "e", "r">> >>],
  [category |-> "Food & Grocery", keywords |-> <<
       <<"f", "o", "o", "d">>, <<"g", "r", "o", "c", "e", "r", "y">>,
       <<"m", "e", "a", "l">>, <<"s", "n", "a", "c", "k">>,
       <<"d", "r", "i", "n", "k">>,
       <<"b", "e", "v", "e", "r", "a", "g", "e">>,
       <<"c", "o", "f", "f", "e", "e">>, <<"t", "e", "a">>,
       <<"w", "a", "t", "e", "r">>, <<"j", "u", "i", "c", "e">>,
       <<"s", "o", "d", "a">>, <<"b", "e", "e", "r">>,
       <<"w", "i", "n", "e">>, <<"a", "l", "c", "o", "h", "o", "l">>,
       <<"f", "r", "u", "i", "t">>,
       <<"v", "e", "g", "e", "t", "a", "b", "l", "e">>,
       <<"m", "e", "a", "t">>, <<"f", "i", "s", "h">>,
       <<"d", "a", "i", "r", "y">>, <<"m", "i", "l", "k">>,
       <<"c", "h", "e", "e", "s", "e">>, <<"y", "o", "g", "u", "r", "t">>,
       <<"b", "r", "e", "a", "d">>, <<"p", "a", "s", "t", "a">>,
       <<"r", "i", "c", "e">>, <<"c", "e", "r", "e", "a", "l">>,
       <<"c", "h", "o", "c", "o", "l", "a", "t", "e">>,
       <<"c", "a", "n", "d", "y">>, <<"s", "w", "e", "e", "t">>,
       <<"o", "r", "g", "a", "n", "i", "c">>,
       <<"r", "e", "s", "t", "a", "u", "r", "a", "n", "t">>,
       <<"t", "a", "k", "e", "a", "w", "a", "y">>,
       <<"d", "e", "l", "i", "v", "e", "r", "y">> >>],
  [category |-> "Sports & Outdoor", keywords |-> <<
       <<"s", "p", "o", "r", "t">>, <<"f", "i", "t", "n", "e", "s", "s">>,
       <<"e", "x", "e", "r", "c", "i", "s", "e">>,
       <<"w", "o", "r", "k", "o", "u", "t">>, <<"g", "y", "m">>,
       <<"t", "r", "a", "i", "n", "i", "n", "g">>,
       <<"r", "u", "n", "n", "i", "n", "g">>,
       <<"c", "y", "c", "l", "i", "n", "g">>, <<"b", "i", "k", "e">>,
       <<"b", "i", "c", "y", "c", "l", "e">>,
       <<"h", "i", "k", "i", "n", "g">>,
       <<"c", "a", "m", "p", "i", "n", "g">>,
       <<"o", "u", "t", "d", "o", "o", "r">>,
       <<"a", "d", "v", "e", "n", "t", "u", "r", "e">>,
       <<"f", "i", "s", "h", "i", "n", "g">>,
       <<"h", "u", "n", "t", "i", "n", "g">>, <<"g", "o", "l", "f">>,
       <<"t", "e", "n", "n", "i", "s">>,
       <<"s", "w", "i", "m", "m", "i", "n", "g">>,
       <<"b", "a", "s", "k", "e", "t", "b", "a", "l", "l">>,
       <<"f", "o", "o", "t", "b", "a", "l", "l">>,
       <<"s", "o", "c", "c", "e", "r">>,
       <<"b", "a", "s", "e", "b", "a", "l", "l">>,
       <<"v", "o", "l", "l", "e", "y", "b", "a", "l", "l">>,
       <<"s", "k", "i">>, <<"s", "n", "o", "w", "b", "o", "a", "r", "d">>,
       <<"s", "k", "a", "t", "e", "b", "o", "a", "r", "d">>,
       <<"s", "u", "r", "f">>, <<"y", "o", "g", "a">>, <<"m", "a", "t">> >>],
  [category |-> "Beauty & Health", keywords |-> <<
       <<"b", "e", "a", "u", "t", "y">>, <<"h", "e", "a", "l", "t", "h">>,
       <<"s", "k", "i", "n", "c", "a", "r", "e">>, <<"s", "k", "i", "n">>,
       <<"f", "a", "c", "e">>, <<"b", "o", "d", "y">>,
       <<"h", "a", "i", "r">>, <<"m", "a", "k", "e", "u", "p">>,
       <<"c", "o", "s", "m", "e", "t", "i", "c">>, <<"n", "a", "i", "l">>,
       <<"p", "e", "r", "f", "u", "m", "e">>,
       <<"f", "r", "a", "g", "r", "a", "n", "c", "e">>,
       <<"c", "r", "e", "a", "m">>, <<"l", "o", "t", "i", "o", "n">>,
       <<"s", "h", "a", "m", "p", "o", "o">>,
       <<"c", "o", "n", "d", "i", "t", "i", "o", "n", "e", "r">>,
       <<"s", "o", "a", "p">>, <<"s", "h", "o", "w", "e", "r">>,
       <<"b", "a", "t", "h">>,
       <<"t", "o", "o", "t", "h", "b", "r", "u", "s", "h">>,
       <<"t", "o", "o", "t", "h", "p", "a", "s", "t", "e">>,
       <<"d", "e", "n", "t", "a", "l">>,
       <<"v", "i", "t", "a", "m", "i", "n">>,
       <<"s", "u", "p", "p", "l", "e", "m", "e", "n", "t">>,
       <<"m", "e", "d", "i", "c", "i", "n", "e">>,
       <<"p", "h", "a", "r", "m", "a", "c", "y">>,
       <<"f", "i", "r", "s", "t", " ", "a", "i", "d">>,
       <<"h", "e", "a", "l", "t", "h", "c", "a", "r", "e">>,
       <<"w", "e", "l", "l", "n", "e", "s", "s">> >>],
  [category |-> "Travel", keywords |-> <<
       <<"t", "r", "a", "v", "e", "l">>, <<"t", "r", "i", "p">>,
       <<"v", "a", "c", "a", "t", "i", "o", "n">>,
       <<"h", "o", "l", "i", "d", "a", "y">>, <<"h", "o", "t", "e", "l">>,
       <<"r", "e", "s", "o", "r", "t">>,
       <<"b", "o", "o", "k", "i", "n", "g">>,
       <<"f", "l", "i", "g", "h", "t">>,
       <<"a", "i", "r", "l", "i", "n", "e">>,
       <<"a", "i", "r", "p", "l", "a", "n", "e">>,
       <<"a", "i", "r", "p", "o", "r", "t">>,
       <<"t", "i", "c", "k", "e", "t">>,
       <<"l", "u", "g", "g", "a", "g", "e">>,
       <<"s", "u", "i", "t", "c", "a", "s", "e">>,
       <<"p", "a", "s", "s", "p", "o", "r", "t">>, <<"t", "o", "u", "r">>,
       <<"t", "o", "u", "r", "i", "s", "m">>,
       <<"t", "o", "u", "r", "i", "s", "t">>,
       <<"d", "e", "s", "t", "i", "n", "a", "t", "i", "o", "n">>,
       <<"b", "e", "a", "c", "h">>,
       <<"m", "o", "u", "n", "t", "a", "i", "n">>, <<"c", "i", "t", "y">>,
       <<"c", "o", "u", "n", "t", "r", "y">>,
       <<"i", "n", "t", "e", "r", "n", "a", "t", "i", "o", "n", "a", "l">>,
       <<"d", "o", "m", "e", "s", "t", "i", "c">>,
       <<"t", "r", "a", "i", "n">>, <<"b", "u", "s">>,
       <<"c", "a", "r", " ", "r", "e", "n", "t", "a", "l">>,
       <<"c", "r", "u", "i", "s", "e">> >>],
  [category |-> "Entertainment", keywords |-> <<
       <<"e", "n", "t", "e", "r", "t", "a", "i", "n", "m", "e", "n", "t">>,
       <<"f", "u", "n">>, <<"g", "a", "m", "e">>, <<"t", "o", "y">>,
       <<"p", "l", "a", "y">>, <<"m", "o", "v", "i", "e">>,
       <<"f", "i", "l", "m">>, <<"c", "i", "n", "e", "m", "a">>,
       <<"t", "h", "e", "a", "t", "e", "r">>,
       <<"t", "h", "e", "a", "t", "r", "e">>, <<"m", "u", "s", "i", "c">>,
       <<"c", "o", "n", "c", "e", "r", "t">>,
       <<"f", "e", "s", "t", "i", "v", "a", "l">>, <<"s", "h", "o", "w">>,
       <<"e", "v", "e", "n", "t">>, <<"t", "i", "c", "k", "e", "t">>,
       <<"s", "t", "r", "e", "a", "m">>,
       <<"s", "t", "r", "e", "a", "m", "i", "n", "g">>,
       <<"s", "u", "b", "s", "c", "r", "i", "p", "t", "i", "o", "n">>,
       <<"n", "e", "t", "f", "l", "i", "x">>,
       <<"s", "p", "o", "t", "i", "f", "y">>,
       <<"d", "i", "s", "n", "e", "y">>, <<"a", "m", "a", "z", "o", "n">>,
       <<"h", "b", "o">>, <<"b", "o", "o", "k">>,
       <<"e", "b", "o", "o", "k">>,
       <<"a", "u", "d", "i", "o", "b", "o", "o", "k">>,
       <<"p", "o", "d", "c", "a", "s", "t">>,
       <<"b", "o", "a", "r", "d", " ", "g", "a", "m", "e">> >>],
  [category |-> "Kids & Toys", keywords |-> <<
       <<"k", "i", "d">>, <<"c", "h", "i", "l", "d">>,
       <<"c", "h", "i", "l", "d", "r", "e", "n">>, <<"b", "a", "b", "y">>,
       <<"i", "n", "f", "a", "n", "t">>,
       <<"t", "o", "d", "d", "l", "e", "r">>, <<"t", "o", "y">>,
       <<"g", "a", "m", "e">>, <<"p", "l", "a", "y">>,
       <<"l", "e", "g", "o">>, <<"d", "o", "l", "l">>,
       <<"a", "c", "t", "i", "o", "n", " ", "f", "i", "g", "u", "r", "e">>,
       <<"p", "u", "z", "z", "l", "e">>,
       <<"e", "d", "u", "c", "a", "t", "i", "o", "n", "a", "l">>,
       <<"l", "e", "a", "r", "n", "i", "n", "g">>,
       <<"s", "c", "h", "o", "o", "l">>,
       <<"d", "a", "y", "c", "a", "r", "e">>,
       <<"s", "t", "r", "o", "l", "l", "e", "r">>,
       <<"c", "a", "r", " ", "s", "e", "a", "t">>,
       <<"d", "i", "a", "p", "e", "r">>, <<"b", "o", "t", "t", "l", "e">>,
       <<"p", "a", "c", "i", "f", "i", "e", "r">>,
       <<"c", "l", "o", "t", "h", "i", "n", "g">>,
       <<"s", "h", "o", "e", "s">>, <<"b", "o", "o", "k">>,
       <<"b", "a", "c", "k", "p", "a", "c", "k">>,
       <<"l", "u", "n", "c", "h", " ", "b", "o", "x">> >>],
  [category |-> "Automotive", keywords |-> <<
       <<"c", "a", "r">>, <<"a", "u", "t", "o">>,
       <<"a", "u", "t", "o", "m", "o", "t", "i", "v", "e">>,
       <<"v", "e", "h", "i", "c", "l", "e">>, <<"t", "r", "u", "c", "k">>,
       <<"s", "u", "v">>, <<"v", "a", "n">>,
       <<"m", "o", "t", "o", "r", "c", "y", "c", "l", "e">>,
       <<"s", "c", "o", "o", "t", "e", "r">>, <<"b", "i", "k", "e">>,
       <<"p", "a", "r", "t">>,
       <<"a", "c", "c", "e", "s", "s", "o", "r", "y">>, <<"o", "i", "l">>,
       <<"t", "i", "r", "e">>, <<"w", "h", "e", "e", "l">>,
       <<"b", "a", "t", "t", "e", "r", "y">>,
       <<"e", "n", "g", "i", "n", "e">>,
       <<"t", "r", "a", "n", "s", "m", "i", "s", "s", "i", "o", "n">>,
       <<"b", "r", "a", "k", "e">>, <<"l", "i", "g", "h", "t">>,
       <<"s", "e", "a", "t">>, <<"c", "o", "v", "e", "r">>,
       <<"m", "a", "t">>, <<"c", "h", "a", "r", "g", "e", "r">>,
       <<"c", "l", "e", "a", "n", "e", "r">>, <<"w", "a", "s", "h">>,
       <<"p", "o", "l", "i", "s", "h">>, <<"r", "e", "p", "a", "i", "r">>,
       <<"m", "a", "i", "n", "t", "e", "n", "a", "n", "c", "e">>,
       <<"s", "e", "r", "v", "i", "c", "e">> >>],
  [category |-> "Services", keywords |-> <<
       <<"s", "e", "r", "v", "i", "c", "e">>,
       <<"s", "u", "b", "s", "c", "r", "i", "p", "t", "i", "o", "n">>,
       <<"m", "e", "m", "b", "e", "r", "s", "h", "i", "p">>,
       <<"p", "l", "a", "n">>,
       <<"i", "n", "s", "u", "r", "a", "n", "c", "e">>,
       <<"w", "a", "r", "r", "a", "n", "t", "y">>,
       <<"p", "r", "o", "t", "e", "c", "t", "i", "o", "n">>,
       <<"r", "e", "p", "a", "i", "r">>,
       <<"i", "n", "s", "t", "a", "l", "l", "a", "t", "i", "o", "n">>,
       <<"s", "e", "t", "u", "p">>,
       <<"d", "e", "l", "i", "v", "e", "r", "y">>,
       <<"s", "h", "i", "p", "p", "i", "n", "g">>,
       <<"m", "a", "i", "n", "t", "e", "n", "a", "n", "c", "e">>,
       <<"c", "l", "e", "a", "n", "i", "n", "g">>,
       <<"c", "o", "n", "s", "u", "l", "t", "i", "n", "g">>,
       <<"a", "d", "v", "i", "c", "e">>,
       <<"s", "u", "p", "p", "o", "r", "t">>,
       <<"a", "s", "s", "i", "s", "t", "a", "n", "c", "e">>,
       <<"c", "a", "r", "e">>,
       <<"e", "d", "u", "c", "a", "t", "i", "o", "n">>,
       <<"c", "o", "u", "r", "s", "e">>, <<"c", "l", "a", "s", "s">>,
       <<"t", "u", "t", "o", "r", "i", "a", "l">>,
       <<"t", "r", "a", "i", "n", "i", "n", "g">>,
       <<"c", "o", "a", "c", "h", "i", "n", "g">>,
       <<"f", "i", "n", "a", "n", "c", "i", "a", "l">>,
       <<"l", "e", "g", "a", "l">>, <<"m", "e", "d", "i", "c", "a", "l">>,
       <<"d", "e", "n", "t", "a", "l">> >>],
  [category |-> "Other Deals", keywords |-> <<
 >>]
>>

\* categorizeService.ts:222
TextToAnalyze(article) ==
  ToLowerCase(article.title) \o <<" ">> \o ToLowerCase(article.description)

\* categorizeService.ts:232  keywords.filter(k => text.includes(k)).length
MatchCount(text, keywords) ==
  Cardinality({i \in 1..Len(keywords) : Includes(text, keywords[i])})

RECURSIVE BestCategory_LastWins(_, _, _, _)
\* mutant of BestCategory: a category with as many matches replaces the best
BestCategory_LastWins(text, i, bestCategory, maxMatches) ==
  IF i > Len(categoryKeywords) THEN bestCategory
  ELSE LET entry == categoryKeywords[i]
       IN IF entry.category = "Other Deals"
            THEN BestCategory_LastWins(text, i + 1, bestCategory, maxMatches)
            ELSE LET matches == MatchCount(text, entry.keywords)
                 IN IF matches >= maxMatches
                      THEN BestCategory_LastWins(text, i + 1, entry.category, matches)
                      ELSE BestCategory_LastWins(text, i + 1, bestCategory, maxMatches)

RECURSIVE BestCategory(_, _, _, _)
\* categorizeService.ts:224-239: the loop over the categories in declaration
\* order; a category replaces the best one only with strictly more matches
BestCategory(text, i, bestCategory, maxMatches) ==
  IF i > Len(categoryKeywords) THEN bestCategory
  ELSE LET entry == categoryKeywords[i]
       IN IF entry.category = "Other Deals"
            THEN BestCategory(text, i + 1, bestCategory, maxMatches)
            ELSE LET matches == MatchCount(text, entry.keywords)
                 IN IF matches > maxMatches
                      THEN BestCategory(text, i + 1, entry.category, matches)
                      ELSE BestCategory(text, i + 1, bestCategory, maxMatches)

\* categorizeService.ts:154-242
categorizeArticleWithKeywords(article) ==
  BestCategory(TextToAnalyze(article), 1, "Other Deals", 0)

\* the listings handed to categorizeArticles
ListingUniverse == {ListingTv, ListingBikeMat, ListingPlain}

\* link suffixes that tell the listings of a long page apart
FillerSuffixes ==
  <<"0", "1", "2", "3", "4", "5", "6", "7", "8", "9",
    "A", "B", "C", "D", "E", "F", "G", "H", "I", "J">>

\* the i-th of the listings that pad an input beyond one lookup sub-batch
FillerListing(i) == Listing(<<"X", "y", "z">>, <<"q">>, <<"f", FillerSuffixes[i]>>)

FillerListings == {FillerListing(i) : i \in 1..Len(FillerSuffixes)}

\* categorizeArticleWithKeywords tabulated over the listings
KeywordCategory ==
  [a \in ListingUniverse \cup FillerListings |-> categorizeArticleWithKeywords(a)]

\* the listings in whose text no keyword of any category occurs
NoKeywordListings ==
  {a \in ListingUniverse :
     \A i \in 1..Len(categoryKeywords) :
       MatchCount(TextToAnalyze(a), categoryKeywords[i].keywords) = 0}

\* what openaiService.generateCompletion settles with (openai.ts:160-230):
\* an error, or the trimmed completion text
AiTexts == {"Electronics", "Travel", "Other Deals", "Gadgets", ""}

AiOutcomes ==
  {[error |-> TRUE, text |-> ""]} \cup {[error |-> FALSE, text |-> t] : t \in AiTexts}

\* mutant of categorizeArticleWithAI: the completion is not validated
categorizeArticleWithAI_Unvalidated(outcome) ==
  IF outcome.error THEN "Other Deals" ELSE outcome.text

\* categorizeService.ts:112-147: errors are caught inside, a completion
\* outside the list (or empty) becomes the default category
categorizeArticleWithAI(outcome) ==
  IF outcome.error THEN "Other Deals"
  ELSE IF outcome.text # "" /\ outcome.text \in PredefinedCategorySet
    THEN outcome.text
  ELSE "Other Deals"

\* categorizeService.ts:57-66
toArticleFromSupabase(cachedArticle) ==
  [title |-> cachedArticle.title, description |-> cachedArticle.description,
   price |-> cachedArticle.price, shippingPrice |-> cachedArticle.shipping_price,
   image |-> cachedArticle.image, link |-> cachedArticle.link]

Range(s) == {s[i] : i \in 1..Len(s)}

\* every order in which a query may hand back a set of rows
Orderings(S) ==
  {s \in [1..Cardinality(S) -> S] :
     \A i, j \in 1..Cardinality(S) : i # j => s[i] # s[j]}

EmptyMap == [c \in {} |-> <<>>]

\* cachedArticles[category].push(article), creating the list when absent
PushTo(map, category, article) ==
  IF category \in DOMAIN map
    THEN [map EXCEPT ![category] = Append(@, article)]
    ELSE [c \in DOMAIN map \cup {category} |->
            IF c = category THEN <<article>> ELSE map[c]]

\* Map.prototype.set on a map kept as the sequence of its values in
\* insertion order: a present key keeps its place and takes the new value
MapSet(map, article) ==
  IF \E i \in 1..Len(map) : createArticleId(map[i].link) = createArticleId(article.link)
    THEN [i \in 1..Len(map) |->
            IF createArticleId(map[i].link) = createArticleId(article.link)
              THEN article ELSE map[i]]
    ELSE Append(map, article)

RECURSIVE BuildArticleMap(_)
\* categorizeService.ts:264-268
BuildArticleMap(articles) ==
  IF articles = <<>> THEN <<>>
  ELSE MapSet(BuildArticleMap(SubSeq(articles, 1, Len(articles) - 1)),
              articles[Len(articles)])

\* Map.prototype.delete by article id
MapDelete(map, ids) ==
  SelectSeq(map, LAMBDA a : createArticleId(a.link) \notin ids)

RECURSIVE PushAll(_, _)
\* categorizeService.ts:289-301
PushAll(map, data) ==
  IF data = <<>> THEN map
  ELSE LET row == data[Len(data)]
       IN PushTo(PushAll(map, SubSeq(data, 1, Len(data) - 1)),
                 row.category, toArticleFromSupabase(row))

\* categorizeService.ts:271
LookupBatchSize == 20

\* categorizeService.ts:364
SaveBatchSize == 50

\* categorizeService.ts:46-53
isSupabaseConfigured == supabaseIsConfigured

NoCat ==
  [pc |-> "idle", id |-> 0, articles |-> <<>>, useAI |-> FALSE, save |-> FALSE,
   articleMap |-> <<>>, articleIds |-> <<>>, batchAt |-> 1,
   cachedArticles |-> EmptyMap, cachedArticleIds |-> <<>>, uncached |-> <<>>,
   next |-> 1, articleCategories |-> EmptyMap, records |-> <<>>, saveAt |-> 1,
   savedCount |-> 0, lookups |-> 0, aiCalls |-> 0, upserts |-> 0,
   allStored |-> FALSE, lookupsFailed |-> 0, aiLog |-> <<>>, written |-> {},
   failedBatches |-> <<>>, failedLookups |-> {}, keys |-> <<>>, result |-> Null]

\* mutant of Finish: any cached item makes the result count as cached
Finish_AnyCached(c) ==
  [c EXCEPT !.pc = "returned",
            !.result =
              [categorizedArticles |->
                 [k \in {k \in DOMAIN c.cachedArticles : Len(c.cachedArticles[k]) > 0}
                    |-> c.cachedArticles[k]],
               fromCache |-> Len(c.cachedArticleIds) > 0]]

\* categorizeService.ts:453-465: drop empty categories, build the result
Finish(c) ==
  [c EXCEPT !.pc = "returned",
            !.result =
              [categorizedArticles |->
                 [k \in {k \in DOMAIN c.cachedArticles : Len(c.cachedArticles[k]) > 0}
                    |-> c.cachedArticles[k]],
               fromCache |-> Len(c.cachedArticleIds) > 0 /\ Len(c.uncached) = 0]]

\* categorizeService.ts:343-361: the records saveToSupabase builds
SaveRecords(c) ==
  [i \in 1..Len(c.uncached) |->
     StoredRow(c.uncached[i], c.articleCategories[c.uncached[i].link], 0)]

\* categorizeService.ts:448-450, 335-346: after the last classification the
\* save starts, unless it is switched off, the store is not configured, or a
\* record has no category (saveToSupabase then returns 0)
AfterClassify(c) ==
  IF ~c.save \/ ~isSupabaseConfigured THEN Finish(c)
  ELSE IF \E i \in 1..Len(c.uncached) : c.articleCategories[c.uncached[i].link] = ""
    THEN Finish(c)
  ELSE [c EXCEPT !.pc = "save", !.records = SaveRecords(c), !.saveAt = 1]

RECURSIVE KeywordsAll(_, _)
\* categorizeService.ts:420-445 with useAI false: the loop runs to its end
KeywordsAll(c, i) ==
  IF i > Len(c.uncached) THEN c
  ELSE LET article == c.uncached[i]
           category == KeywordCategory[article]
       IN KeywordsAll(
            [c EXCEPT !.articleCategories =
                        [l \in DOMAIN @ \cup {article.link} |->
                           IF l = article.link THEN category ELSE @[l]],
                      !.cachedArticles = PushTo(@, category, article)],
            i + 1)

\* mutant of AfterLookup: the items are classified again although none is uncached
AfterLookup_IgnoresCache(c) ==
  LET all == [c EXCEPT !.uncached = IF Len(c.uncached) = 0 THEN c.articles ELSE @]
  IN IF all.useAI THEN [all EXCEPT !.pc = "classify", !.next = 1]
     ELSE AfterClassify(KeywordsAll(all, 1))

\* categorizeService.ts:408-426: all cached -> return; else classify
AfterLookup(c) ==
  IF Len(c.uncached) = 0
    THEN [c EXCEPT !.pc = "returned",
                   !.result = [categorizedArticles |-> c.cachedArticles,
                               fromCache |-> TRUE]]
  ELSE IF c.useAI THEN [c EXCEPT !.pc = "classify", !.next = 1]
  ELSE AfterClassify(KeywordsAll(c, 1))

\* history: every item of the input has a record in the store
AllStored(articles) ==
  \A i \in 1..Len(articles) :
    \E r \in store : r.article_id = createArticleId(articles[i].link)

\* categorizeService.ts:395-406, 249-269: the call up to its first await; one
\* call is followed from the store contents it starts on
categorizeArticles(articles, useAIOption, saveOption) ==
  LET call == [NoCat EXCEPT !.id = cat.id + 1, !.articles = articles,
                            !.useAI = useAIOption /\ openaiApiKey,
                            !.save = saveOption,
                            !.allStored = AllStored(articles)]
  IN IF articles = <<>>
       THEN [call EXCEPT !.pc = "returned",
                         !.result = [categorizedArticles |-> EmptyMap,
                                     fromCache |-> FALSE]]
     ELSE IF ~isSupabaseConfigured
       THEN AfterLookup([call EXCEPT !.uncached = articles])
     ELSE [call EXCEPT !.pc = "lookup",
                       !.articleMap = BuildArticleMap(articles),
                       !.articleIds = [i \in 1..Len(articles) |->
                                         createArticleId(articles[i].link)],
                       !.batchAt = 1]

\* a categorizeArticles call made on its own
CatCall(articles, useAIOption, saveOption) ==
  /\ cat.pc = "idle"
  /\ cat' = categorizeArticles(articles, useAIOption, saveOption)
  /\ UNCHANGED <<store, supabaseIsConfigured, openaiApiKey, rejected>>
  /\ UNCHANGED catFrame

\* mutant of CatLookupBatch: the items of a failed sub-batch are forgotten
CatLookupBatch_FailureDropsBatch ==
  /\ cat.pc = "lookup"
  /\ LET last == Min(cat.batchAt + LookupBatchSize - 1, Len(cat.articleIds))
         batchIds == Range(SubSeq(cat.articleIds, cat.batchAt, last))
         rows == {r \in store : r.article_id \in batchIds}
     IN \E failed \in BOOLEAN :
        \E data \in (IF failed THEN {<<>>} ELSE Orderings(rows)) :
          LET c == [cat EXCEPT
                      !.lookups = @ + 1,
                      !.lookupsFailed = @ + (IF failed THEN 1 ELSE 0),
                      !.failedLookups = IF failed THEN @ \cup {cat.batchAt} ELSE @,
                      !.cachedArticles = PushAll(@, data),
                      !.cachedArticleIds =
                         @ \o [i \in 1..Len(data) |-> data[i].article_id],
                      !.articleMap =
                         MapDelete(@, IF failed THEN batchIds
                                      ELSE {data[i].article_id : i \in 1..Len(data)}),
                      !.batchAt = last + 1]
          IN cat' = IF last >= Len(cat.articleIds)
                      THEN AfterLookup([c EXCEPT !.uncached = c.articleMap])
                      ELSE c
  /\ UNCHANGED <<store, supabaseIsConfigured, openaiApiKey, rejected>>
  /\ UNCHANGED catFrame

\* categorizeService.ts:274-307, 69-81: one sub-batch query settles; a failed
\* query counts as an empty answer
CatLookupBatch ==
  /\ cat.pc = "lookup"
  /\ LET last == Min(cat.batchAt + LookupBatchSize - 1, Len(cat.articleIds))
         batchIds == Range(SubSeq(cat.articleIds, cat.batchAt, last))
         rows == {r \in store : r.article_id \in batchIds}
     IN \E failed \in BOOLEAN :
        \E data \in (IF failed THEN {<<>>} ELSE Orderings(rows)) :
          LET c == [cat EXCEPT
                      !.lookups = @ + 1,
                      !.lookupsFailed = @ + (IF failed THEN 1 ELSE 0),
                      !.failedLookups = IF failed THEN @ \cup {cat.batchAt} ELSE @,
                      !.cachedArticles = PushAll(@, data),
                      !.cachedArticleIds =
                         @ \o [i \in 1..Len(data) |-> data[i].article_id],
                      !.articleMap =
                         MapDelete(@, {data[i].article_id : i \in 1..Len(data)}),
                      !.batchAt = last + 1]
          IN cat' = IF last >= Len(cat.articleIds)
                      THEN AfterLookup([c EXCEPT !.uncached = c.articleMap])
                      ELSE c
  /\ UNCHANGED <<store, supabaseIsConfigured, openaiApiKey, rejected>>
  /\ UNCHANGED catFrame

\* categorizeService.ts:427-445: the classifier call for one item settles
CatClassifyAI ==
  /\ cat.pc = "classify"
  /\ \E outcome \in AiOutcomes :
       LET article == cat.uncached[cat.next]
           category == categorizeArticleWithAI(outcome)
           c == [cat EXCEPT
                   !.aiCalls = @ + 1,
                   !.aiLog = Append(@, [article |-> article, outcome |-> outcome,
                                        category |-> category]),
                   !.articleCategories =
                      [l \in DOMAIN @ \cup {article.link} |->
                         IF l = article.link THEN category ELSE @[l]],
                   !.cachedArticles = PushTo(@, category, article),
                   !.next = @ + 1]
       IN cat' = IF cat.next >= Len(cat.uncached) THEN AfterClassify(c) ELSE c
  /\ UNCHANGED <<store, supabaseIsConfigured, openaiApiKey, rejected>>
  /\ UNCHANGED catFrame

\* mutant of CatSaveBatch: the batch is inserted without conflict resolution
CatSaveBatch_InsertOnly ==
  /\ cat.pc = "save"
  /\ LET last == Min(cat.saveAt + SaveBatchSize - 1, Len(cat.records))
         batch == SubSeq(cat.records, cat.saveAt, last)
         accepted == \A i \in 1..Len(batch) : batch[i].article_id \notin rejected
         c == [cat EXCEPT
                 !.upserts = @ + 1,
                 !.savedCount = @ + (IF accepted THEN Len(batch) ELSE 0),
                 !.written = @ \cup (IF accepted THEN Range(batch) ELSE {}),
                 !.failedBatches = IF accepted THEN @ ELSE Append(@, batch),
                 !.saveAt = last + 1]
     IN /\ store' = IF accepted THEN store \cup Range(batch) ELSE store
        /\ cat' = IF last >= Len(cat.records) THEN Finish(c) ELSE c
  /\ UNCHANGED <<supabaseIsConfigured, openaiApiKey, rejected>>
  /\ UNCHANGED catFrame

\* mutant of CatSaveBatch: a rejected batch ends the call without a result
CatSaveBatch_FailureAborts ==
  /\ cat.pc = "save"
  /\ LET last == Min(cat.saveAt + SaveBatchSize - 1, Len(cat.records))
         batch == SubSeq(cat.records, cat.saveAt, last)
         accepted == \A i \in 1..Len(batch) : batch[i].article_id \notin rejected
         c == [cat EXCEPT
                 !.upserts = @ + 1,
                 !.savedCount = @ + (IF accepted THEN Len(batch) ELSE 0),
                 !.written = @ \cup (IF accepted THEN Range(batch) ELSE {}),
                 !.failedBatches = IF accepted THEN @ ELSE Append(@, batch),
                 !.saveAt = last + 1]
     IN /\ store' = IF accepted
                      THEN {r \in store :
                              r.article_id \notin
                                {batch[i].article_id : i \in 1..Len(batch)}}
                           \cup Range(batch)
                      ELSE store
        /\ cat' = IF ~accepted THEN [c EXCEPT !.pc = "threw"]
                  ELSE IF last >= Len(cat.records) THEN Finish(c) ELSE c
  /\ UNCHANGED <<supabaseIsConfigured, openaiApiKey, rejected>>
  /\ UNCHANGED catFrame

\* categorizeService.ts:367-381, 83-95 and supabase.ts:319-350: one batch
\* upsert (onConflict: 'article_id', the table's primary key) settles; a
\* rejected batch is logged and skipped
CatSaveBatch ==
  /\ cat.pc = "save"
  /\ LET last == Min(cat.saveAt + SaveBatchSize - 1, Len(cat.records))
         batch == SubSeq(cat.records, cat.saveAt, last)
         accepted == \A i \in 1..Len(batch) : batch[i].article_id \notin rejected
         c == [cat EXCEPT
                 !.upserts = @ + 1,
                 !.savedCount = @ + (IF accepted THEN Len(batch) ELSE 0),
                 !.written = @ \cup (IF accepted THEN Range(batch) ELSE {}),
                 !.failedBatches = IF accepted THEN @ ELSE Append(@, batch),
                 !.saveAt = last + 1]
     IN /\ store' = IF accepted
                      THEN {r \in store :
                              r.article_id \notin
                                {batch[i].article_id : i \in 1..Len(batch)}}
                           \cup Range(batch)
                      ELSE store
        /\ cat' = IF last >= Len(cat.records) THEN Finish(c) ELSE c
  /\ UNCHANGED <<supabaseIsConfigured, openaiApiKey, rejected>>
  /\ UNCHANGED catFrame

\* ---- POST /api/categorize as routes/categorize.js serves it ----
\* index.js:11 requires './routes/categorize', which resolves to this file
\* when the JavaScript entry point is run; the handler does the lookup, the
\* classification and the persist itself, in the same record `cat`.

\* part_006:197
JsLookupBatchSize == 100

\* part_006:431
JsClassifyBatchSize == 10

\* part_006:321
JsStoreBatchSize == 50

RECURSIVE KeysOf(_, _)
\* the property order of cachedArticles: categories in the order in which
\* the rows first name them (part_006:220-229)
KeysOf(keys, data) ==
  IF data = <<>> THEN keys
  ELSE LET before == KeysOf(keys, SubSeq(data, 1, Len(data) - 1))
           category == data[Len(data)].category
       IN IF category \in Range(before) THEN before ELSE Append(before, category)

\* part_006:416-421: the predefined categories not yet present are added
\* after the cached ones
MergedKeys(keys) ==
  keys \o SelectSeq(predefinedCategories, LAMBDA k : k \notin Range(keys))

RECURSIVE NewRecords(_, _)
\* part_006:458-472, 283-310: the records storeInCache builds, category by
\* category in property order, from the items whose id no lookup returned
NewRecords(c, i) ==
  IF i > Len(c.keys) THEN <<>>
  ELSE LET k == c.keys[i]
           items == IF k \in DOMAIN c.cachedArticles THEN c.cachedArticles[k] ELSE <<>>
           new == SelectSeq(items,
                    LAMBDA a : createUniqueId(a.link) \notin Range(c.cachedArticleIds))
       IN [j \in 1..Len(new) |-> StoredRow(new[j], k, 0)] \o NewRecords(c, i + 1)

\* part_006:491-503: the response, sent without waiting for storeInCache
JsRespond(c) ==
  [c EXCEPT !.result =
     [categorizedArticles |->
        [k \in {k \in DOMAIN c.cachedArticles : Len(c.cachedArticles[k]) > 0}
           |-> c.cachedArticles[k]],
      fromCache |-> Len(c.cachedArticleIds) > 0 /\ Len(c.uncached) = 0]]

\* part_006:454-489, 258-323: storeInCache is started and runs up to its
\* first upsert; the handler goes on to answer at once
JsAfterClassify(c) ==
  LET records == NewRecords(c, 1)
  IN IF ~isSupabaseConfigured \/ records = <<>>
       THEN [JsRespond(c) EXCEPT !.pc = "returned"]
     ELSE [JsRespond(c) EXCEPT !.pc = "jsStore", !.records = records, !.saveAt = 1]

\* part_006:444-450: the keyword strategy, all items in one go.  The list of
\* categorize.js is that of categorizeService.ts with 'décor' spelled
\* correctly; no listing of the model holds a non-ASCII letter.
JsKeywordsAll(c) == JsAfterClassify(KeywordsAll(c, 1))

\* part_006:403-426
JsAfterLookup(c) ==
  IF Len(c.uncached) = 0 /\ DOMAIN c.cachedArticles # {}
    THEN [c EXCEPT !.pc = "returned",
                   !.result = [categorizedArticles |-> c.cachedArticles,
                               fromCache |-> TRUE]]
  ELSE IF Len(c.uncached) = 0
    THEN [JsRespond(c) EXCEPT !.pc = "returned"]
  ELSE LET merged == [c EXCEPT !.keys = MergedKeys(c.keys)]
       IN IF merged.useAI THEN [merged EXCEPT !.pc = "jsClassify", !.next = 1]
          ELSE JsKeywordsAll(merged)

\* part_006:387-401, 179-196: the handler up to its first await
JsCategorize(articles) ==
  /\ cat.pc = "idle"
  /\ LET call == [NoCat EXCEPT !.id = cat.id + 1, !.articles = articles,
                               !.useAI = openaiApiKey, !.save = TRUE,
                               !.allStored = AllStored(articles)]
     IN cat' =
          IF ~isSupabaseConfigured
            THEN JsAfterLookup([call EXCEPT !.uncached = articles])
          ELSE IF articles = <<>>
            THEN JsAfterLookup(call)
          ELSE [call EXCEPT !.pc = "jsLookup",
                            !.articleIds = [i \in 1..Len(articles) |->
                                              createUniqueId(articles[i].link)],
                            !.batchAt = 1]
  /\ UNCHANGED <<store, supabaseIsConfigured, openaiApiKey, rejected>>
  /\ UNCHANGED catFrame

\* part_006:199-237: one sub-batch query settles; on an error the loop goes
\* on to the next sub-batch
JsLookupBatch ==
  /\ cat.pc = "jsLookup"
  /\ LET last == Min(cat.batchAt + JsLookupBatchSize - 1, Len(cat.articleIds))
         batchIds == Range(SubSeq(cat.articleIds, cat.batchAt, last))
         rows == {r \in store : r.article_id \in batchIds}
     IN \E failed \in BOOLEAN :
        \E data \in (IF failed THEN {<<>>} ELSE Orderings(rows)) :
          LET c == [cat EXCEPT
                      !.lookups = @ + 1,
                      !.lookupsFailed = @ + (IF failed THEN 1 ELSE 0),
                      !.failedLookups = IF failed THEN @ \cup {cat.batchAt} ELSE @,
                      !.cachedArticles = PushAll(@, data),
                      !.keys = KeysOf(@, data),
                      !.cachedArticleIds =
                         @ \o [i \in 1..Len(data) |-> data[i].article_id],
                      !.batchAt = last + 1]
              done == [c EXCEPT !.uncached =
                         SelectSeq(c.articles,
                           LAMBDA a : createUniqueId(a.link)
                                        \notin Range(c.cachedArticleIds))]
          IN cat' = IF last >= Len(cat.articleIds) THEN JsAfterLookup(done) ELSE c
  /\ UNCHANGED <<store, supabaseIsConfigured, openaiApiKey, rejected>>
  /\ UNCHANGED catFrame

RECURSIVE JsPushBatch(_, _, _, _)
\* part_006:439-443: each item of the batch goes under the category its
\* completion gave
JsPushBatch(c, batch, outcomes, i) ==
  IF i > Len(batch) THEN c
  ELSE LET article == batch[i]
           category == categorizeArticleWithAI(outcomes[i])
       IN JsPushBatch(
            [c EXCEPT !.aiCalls = @ + 1,
                      !.aiLog = Append(@, [article |-> article, outcome |-> outcomes[i],
                                           category |-> category]),
                      !.articleCategories =
                         [l \in DOMAIN @ \cup {article.link} |->
                            IF l = article.link THEN category ELSE @[l]],
                      !.cachedArticles = PushTo(@, category, article)],
            batch, outcomes, i + 1)

\* part_006:431-449: the classifier calls of one batch, issued together
\* (Promise.all), have all settled
JsClassifyBatch ==
  /\ cat.pc = "jsClassify"
  /\ LET last == Min(cat.next + JsClassifyBatchSize - 1, Len(cat.uncached))
         batch == SubSeq(cat.uncached, cat.next, last)
     IN \E outcomes \in [1..Len(batch) -> AiOutcomes] :
          LET c == [JsPushBatch(cat, batch, outcomes, 1) EXCEPT !.next = last + 1]
          IN cat' = IF last >= Len(cat.uncached) THEN JsAfterClassify(c) ELSE c
  /\ UNCHANGED <<store, supabaseIsConfigured, openaiApiKey, rejected>>
  /\ UNCHANGED catFrame

\* part_006:327-372: one batch upsert of storeInCache settles, after the
\* response has gone out.  On an error with code 42501 the first record of
\* the batch is inserted on its own; that insert fails on a record the
\* store refuses and on an id already present, and may fail otherwise.
JsStoreBatch ==
  /\ cat.pc = "jsStore"
  /\ LET last == Min(cat.saveAt + JsStoreBatchSize - 1, Len(cat.records))
         batch == SubSeq(cat.records, cat.saveAt, last)
         accepted == \A i \in 1..Len(batch) : batch[i].article_id \notin rejected
         insertable == /\ batch[1].article_id \notin rejected
                       /\ \A r \in store : r.article_id # batch[1].article_id
     IN \E single \in (IF accepted THEN {FALSE}
                       ELSE IF insertable THEN BOOLEAN ELSE {FALSE}) :
          LET c == [cat EXCEPT
                      !.upserts = @ + 1,
                      !.savedCount = @ + (IF accepted THEN Len(batch) ELSE 0),
                      !.written = @ \cup (IF accepted THEN Range(batch)
                                          ELSE IF single THEN {batch[1]} ELSE {}),
                      !.failedBatches = IF accepted THEN @ ELSE Append(@, batch),
                      !.saveAt = last + 1]
          IN /\ store' = IF accepted
                           THEN {r \in store :
                                   r.article_id \notin
                                     {batch[i].article_id : i \in 1..Len(batch)}}
                                \cup Range(batch)
                         ELSE IF single THEN store \cup {batch[1]}
                         ELSE store
             /\ cat' = IF last >= Len(cat.records) THEN [c EXCEPT !.pc = "returned"]
                       ELSE c
  /\ UNCHANGED <<supabaseIsConfigured, openaiApiKey, rejected>>
  /\ UNCHANGED catFrame

\* rows of categorized_articles present when a call is made
CatStoreSeeds ==
  { {},
    { StoredRow(ListingTv, "Electronics", 0) },
    { StoredRow(ListingTv, "Electronics", 0),
      StoredRow(ListingBikeMat, "Sports & Outdoor", -3),
      StoredRow(ListingPlain, "Other Deals", -3) } }

\* records the store refuses (a constraint of the table they violate)
RejectSeeds == {{}, {createArticleId(ListingPlain.link)}}

\* the inputs of categorizeArticles: every sequence of at most MaxLen listings
ArticleInputs ==
  UNION {[1..n -> ListingUniverse] : n \in 0..MaxLen}

\* inputs of more than LookupBatchSize listings, so that checkCache issues
\* a second sub-batch: all links distinct, or the first listing once more at
\* the end (the same deal scraped from two pages)
LongInputs ==
  { [i \in 1..(LookupBatchSize + 1) |->
       IF i <= LookupBatchSize THEN FillerListing(i) ELSE ListingTv],
    [i \in 1..(LookupBatchSize + 1) |->
       IF i = 1 \/ i = LookupBatchSize + 1 THEN ListingTv ELSE FillerListing(i)],
    [i \in 1..(LookupBatchSize + 2) |->
       IF i <= LookupBatchSize THEN FillerListing(i)
       ELSE IF i = LookupBatchSize + 1 THEN ListingBikeMat ELSE ListingPlain] }

\* rows of categorized_articles present when a long input is looked up
LongStoreSeeds ==
  { {},
    { StoredRow(ListingTv, "Travel", 0) },
    { StoredRow(FillerListing(1), "Other Deals", 0),
      StoredRow(ListingTv, "Electronics", -3) } }

(***************************************************************************)
(* Refresh pipeline: services/articlesService.ts,                          *)
(* fetchCategorizeAndCacheArticles, and the POST /api/categorize route     *)
(***************************************************************************)

\* config.API.ARTICLES.MAX_PAGES
API_MAX_PAGES == 10

\* config.API.CATEGORIZATION.MAX_BATCH_SIZE
MAX_BATCH_SIZE == 50

\* options.maxPages and options.batchSize as the callers pass them; 0 stands
\* for an absent (or zero) option, which `||` replaces by the default
MaxPagesInputs == {1, 2}

BatchSizeInputs == {0, 1, 2}

\* what fetchArticlesFromPage settles with for one page: a rejection, or the
\* listings scraped from the page
PageOutcomes ==
  { [error |-> TRUE, articles |-> <<>>],
    [error |-> FALSE, articles |-> <<>>],
    [error |-> FALSE, articles |-> <<ListingTv>>],
    [error |-> FALSE, articles |-> <<ListingBikeMat, ListingPlain>>] }

RECURSIVE ConcatPages(_, _)
\* articlesService.ts:270-293: a rejected page counts as [], the pages are
\* concatenated in page order
ConcatPages(outcomes, n) ==
  IF n = 0 THEN <<>>
  ELSE ConcatPages(outcomes, n - 1)
         \o (IF outcomes[n].error THEN <<>> ELSE outcomes[n].articles)

\* articlesService.ts:305-308: slices of at most batchSize listings
SliceBatches(allArticles, batchSize) ==
  [k \in 1..((Len(allArticles) + batchSize - 1) \div batchSize) |->
     SubSeq(allArticles, (k - 1) * batchSize + 1,
            Min(k * batchSize, Len(allArticles)))]

\* mutant of MergeCategorized: a category's list is replaced by the response's
MergeCategorized_Replaces(all, response) ==
  [k \in DOMAIN all \cup DOMAIN response |->
     IF k \in DOMAIN response THEN response[k] ELSE all[k]]

\* articlesService.ts:348-356: append the response's lists per category
MergeCategorized(all, response) ==
  [k \in DOMAIN all \cup DOMAIN response |->
     (IF k \in DOMAIN all THEN all[k] ELSE <<>>)
       \o (IF k \in DOMAIN response THEN response[k] ELSE <<>>)]

RECURSIVE SumLengths(_, _)
\* articlesService.ts:372-374: the reduce over the categories
SumLengths(map, keys) ==
  IF keys = {} THEN 0
  ELSE LET k == CHOOSE x \in keys : TRUE
       IN Len(map[k]) + SumLengths(map, keys \ {k})

TotalCategorized(map) == SumLengths(map, DOMAIN map)

\* history: the items of the call's input whose id a lookup of the call
\* handed back
FoundInStore(c) ==
  Cardinality({i \in 1..Len(c.articles) :
                 createArticleId(c.articles[i].link) \in Range(c.cachedArticleIds)})

\* no fetchCategorizeAndCacheArticles call has been made
NoRefresh ==
  [pc |-> "idle", maxPages |-> 0, batchSize |-> 0, fetches |-> 0,
   pages |-> <<>>, allArticles |-> <<>>, batches |-> <<>>, i |-> 1,
   allCategorizedArticles |-> EmptyMap, totalFromCache |-> 0,
   newlySavedToSupabase |-> 0, sent |-> 0, posts |-> 0, skipped |-> 0, merged |-> 0,
   lookupsFailed |-> 0, found |-> 0, persisted |-> 0, store0 |-> {},
   error |-> "none", result |-> Null]

\* what the refresh steps leave alone
rfFrame == <<cfgVars, schedVars, cacheVars, openaiApiKey, rejected, durVars, clVars, pureVars, dbi>>

\* articlesService.ts:250-283: defaults, configuration check, then one
\* fetchArticlesFromPage per page, all issued before the first await
RfCall(maxPagesOption, batchSizeOption) ==
  /\ rf.pc = "idle"
  /\ cat.pc = "idle"
  /\ LET maxPages == IF maxPagesOption = 0 THEN API_MAX_PAGES ELSE maxPagesOption
         batchSize == IF batchSizeOption = 0 THEN MAX_BATCH_SIZE ELSE batchSizeOption
         call == [NoRefresh EXCEPT !.maxPages = maxPages, !.batchSize = batchSize,
                                   !.store0 = store]
     IN rf' = IF ConfigCheckError # "none"
                THEN [call EXCEPT !.pc = "threw", !.error = ConfigCheckError]
                ELSE [call EXCEPT !.pc = "fetching", !.fetches = maxPages]
  /\ UNCHANGED <<store, cat>>
  /\ UNCHANGED rfFrame

\* articlesService.ts:286-310: Promise.all settles, the pages are combined;
\* no listing at all throws, otherwise the batches are cut
RfFetched ==
  /\ rf.pc = "fetching"
  /\ \E outcomes \in [1..rf.maxPages -> PageOutcomes] :
       LET allArticles == ConcatPages(outcomes, rf.maxPages)
       IN rf' = IF Len(allArticles) = 0
                  THEN [rf EXCEPT !.pc = "threw", !.pages = outcomes,
                                  !.error = "No articles found"]
                  ELSE [rf EXCEPT !.pc = "batching", !.pages = outcomes,
                                  !.allArticles = allArticles,
                                  !.batches = SliceBatches(allArticles, rf.batchSize),
                                  !.i = 1]
  /\ UNCHANGED <<store, cat>>
  /\ UNCHANGED rfFrame

\* mutant of RfBatchSend: the requests of all remaining batches are issued
\* together
RfBatchSend_Pipelined ==
  /\ rf.pc = "batching"
  /\ rf.i <= Len(rf.batches)
  /\ cat.pc = "idle"
  /\ rf' = [rf EXCEPT !.sent = Len(rf.batches)]
  /\ cat' = categorizeArticles(rf.batches[rf.i], TRUE, TRUE)
  /\ UNCHANGED store
  /\ UNCHANGED rfFrame

\* articlesService.ts:317-329 and the POST /api/categorize handler: the
\* request for batch i is issued and reaches the route, which calls
\* categorizeArticles with the default options; the loop waits for it
RfBatchSend ==
  /\ rf.pc = "batching"
  /\ rf.i <= Len(rf.batches)
  /\ cat.pc = "idle"
  /\ rf' = [rf EXCEPT !.sent = @ + 1]
  /\ cat' = categorizeArticles(rf.batches[rf.i], TRUE, TRUE)
  /\ UNCHANGED store
  /\ UNCHANGED rfFrame

\* mutant of RfBatchSkip: a failed batch ends the run
RfBatchSkip_Aborts ==
  /\ rf.pc = "batching"
  /\ rf.i <= Len(rf.batches)
  /\ cat.pc = "idle"
  /\ rf' = [rf EXCEPT !.pc = "threw", !.sent = @ + 1, !.posts = @ + 1, !.skipped = @ + 1,
                      !.error = "Failed to categorize any articles"]
  /\ UNCHANGED <<store, cat>>
  /\ UNCHANGED rfFrame

\* articlesService.ts:331-335, 365-368: the request fails or its response is
\* not ok; the batch is skipped
RfBatchSkip ==
  /\ rf.pc = "batching"
  /\ rf.i <= Len(rf.batches)
  /\ cat.pc = "idle"
  /\ rf' = [rf EXCEPT !.i = @ + 1, !.sent = @ + 1, !.posts = @ + 1, !.skipped = @ + 1]
  /\ UNCHANGED <<store, cat>>
  /\ UNCHANGED rfFrame

\* articlesService.ts:337-363: the response of batch i is merged
RfBatchDone ==
  /\ rf.pc = "batching"
  /\ cat.pc = "returned"
  /\ rf' = [rf EXCEPT
              !.i = @ + 1,
              !.posts = @ + 1,
              !.merged = @ + 1,
              !.lookupsFailed = @ + cat.lookupsFailed,
              !.found = @ + FoundInStore(cat),
              !.persisted = @ + cat.savedCount,
              !.totalFromCache =
                 @ + (IF cat.result.fromCache THEN Len(rf.batches[rf.i]) ELSE 0),
              !.newlySavedToSupabase =
                 @ + (IF cat.result.fromCache THEN 0 ELSE Len(rf.batches[rf.i])),
              !.allCategorizedArticles =
                 MergeCategorized(@, cat.result.categorizedArticles)]
  /\ cat' = NoCat
  /\ UNCHANGED store
  /\ UNCHANGED rfFrame

\* articlesService.ts:371-397: nothing categorized throws, otherwise the
\* result and its statistics are returned
RfFinish ==
  /\ rf.pc = "batching"
  /\ rf.i > Len(rf.batches)
  /\ cat.pc = "idle"
  /\ LET total == TotalCategorized(rf.allCategorizedArticles)
     IN rf' = IF total = 0
                THEN [rf EXCEPT !.pc = "threw",
                                !.error = "Failed to categorize any articles"]
                ELSE [rf EXCEPT
                        !.pc = "returned",
                        !.result =
                          [success |-> TRUE,
                           categorizedArticles |-> rf.allCategorizedArticles,
                           stats |->
                             [pagesFetched |-> rf.maxPages,
                              totalArticles |-> Len(rf.allArticles),
                              totalCategorized |-> total,
                              categoriesCount |->
                                Cardinality(DOMAIN rf.allCategorizedArticles),
                              batchesProcessed |-> Len(rf.batches),
                              articlesFromCache |-> rf.totalFromCache,
                              newlySavedToSupabase |-> rf.newlySavedToSupabase]]]
  /\ UNCHANGED <<store, cat>>
  /\ UNCHANGED rfFrame

\* rows of categorized_articles present when a refresh starts
RefreshStoreSeeds ==
  { {},
    { StoredRow(ListingTv, "Other Deals", 0) } }

(***************************************************************************)
(* Durable Store queries: services/supabase.ts, getData                    *)
(***************************************************************************)

NoFilter ==
  [present |-> FALSE, column |-> "", operator |-> <<>>, isArray |-> FALSE,
   value |-> <<>>]

\* { column: 'article_id', operator, value: ids } with an array value
InFilter(operator, ids) ==
  [present |-> TRUE, column |-> "article_id", operator |-> operator,
   isArray |-> TRUE, value |-> ids]

\* { column: 'article_id', operator: 'eq', value: id }
EqFilter(id) ==
  [present |-> TRUE, column |-> "article_id", operator |-> <<"e", "q">>,
   isArray |-> FALSE, value |-> id]

\* spellings of the membership operator the callers may pass
InOperators == {<<"i", "n">>, <<"I", "N">>, <<"I", "n">>}

\* the id lists of the membership filters
IdLists ==
  { <<>>,
    <<createUniqueId(ListingTv.link)>>,
    <<createUniqueId(ListingTv.link), createUniqueId(ListingPlain.link)>>,
    <<createUniqueId(<<"z">>)>> }

\* supabase.ts:226  operator.toLowerCase() === 'in' && Array.isArray(value)
\*                  && value.length === 0
IsEmptyInFilter(filter) ==
  /\ filter.present
  /\ ToLowerCase(filter.operator) = <<"i", "n">>
  /\ filter.isArray
  /\ Len(filter.value) = 0

\* the ids of the equality filters
EqIds == <<createUniqueId(ListingTv.link), createUniqueId(<<"z">>)>>

\* the rows the store selects for a filter
MatchingRows(filter) ==
  IF ~filter.present THEN store
  ELSE IF filter.isArray
    THEN {r \in store : r.article_id \in Range(filter.value)}
  ELSE {r \in store : r.article_id = filter.value}

NoQuery ==
  [pc |-> "idle", id |-> 0, filter |-> NoFilter, networkCalls |-> 0,
   result |-> <<>>, error |-> "none"]

DurIdle ==
  /\ serviceClient = FALSE
  /\ dq = NoQuery

\* mutant of GetDataCall: an empty id list is sent to the store like any other
GetDataCall_SendsEmptyList(filter) ==
  /\ dq.pc \in {"idle", "returned", "threw"}
  /\ dq.id < MaxQueries
  /\ LET client == serviceClient \/ supabaseIsConfigured
         call == [NoQuery EXCEPT !.id = dq.id + 1, !.filter = filter]
     IN /\ serviceClient' = client
        /\ dq' = IF ~client
                   THEN [call EXCEPT !.pc = "threw",
                           !.error = "Supabase service client is not initialized"]
                 ELSE [call EXCEPT !.pc = "awaiting", !.networkCalls = 1]
  /\ UNCHANGED durFrame

\* supabase.ts:208-259: the client is created on first use (117-140); an
\* empty membership list returns [] before the query is awaited; otherwise
\* the query is built and sent
GetDataCall(filter) ==
  /\ dq.pc \in {"idle", "returned", "threw"}
  /\ dq.id < MaxQueries
  /\ LET client == serviceClient \/ supabaseIsConfigured
         call == [NoQuery EXCEPT !.id = dq.id + 1, !.filter = filter]
     IN /\ serviceClient' = client
        /\ dq' = IF ~client
                   THEN [call EXCEPT !.pc = "threw",
                           !.error = "Supabase service client is not initialized"]
                 ELSE IF IsEmptyInFilter(filter)
                   THEN [call EXCEPT !.pc = "returned", !.result = <<>>]
                 ELSE [call EXCEPT !.pc = "awaiting", !.networkCalls = 1]
  /\ UNCHANGED durFrame

\* supabase.ts:261-272: the awaited query settles with an error, which is
\* wrapped and thrown, or with the selected rows
GetDataSettle ==
  /\ dq.pc = "awaiting"
  /\ \/ dq' = [dq EXCEPT !.pc = "threw", !.error = "Failed to fetch data"]
     \/ \E data \in Orderings(MatchingRows(dq.filter)) :
          dq' = [dq EXCEPT !.pc = "returned", !.result = data]
  /\ UNCHANGED serviceClient
  /\ UNCHANGED durFrame

(***************************************************************************)
(* Cache cleanup scheduler: lib/cacheCleanup                               *)
(***************************************************************************)

\* Two revisions of lib/cacheCleanup exist.  "guarded" (scraper.js:148-286)
\* keeps isCleanupRunning and lastCleanupTime and exports runManualCleanup;
\* "plain" (scraper.js:288-318, cacheCleanup.js:12-32) sweeps once when it is
\* started and then on every interval, with no flag.
CleanupModules == {"guarded", "plain"}

\* scraper.js:178  Math.max(cleanupIntervalMs, 60000)
MIN_CLEANUP_INTERVAL_MS == 60000

\* the interval of a deployment configured with the minimum, in seconds
CleanupIntervalSeconds == MIN_CLEANUP_INTERVAL_MS \div 1000

\* the clock of this machine moves in fifths of the interval
ClockStep == CleanupIntervalSeconds \div 5

\* scraper.js:152-154 (cleanupInterval, isCleanupRunning, lastCleanupTime)
\* with the sweeps whose DELETE has been issued and has not called back
NoCleanup ==
  [started |-> FALSE, startedAt |-> 0, fires |-> 0,
   isCleanupRunning |-> FALSE, lastCleanupTime |-> 0, inFlight |-> <<>>,
   startSweeps |-> 0, launched |-> 0, skipped |-> 0, ended |-> 0, calls |-> 0]

CleanupIdle ==
  /\ cleanupModule = "plain"
  /\ cl = NoCleanup

\* sqliteCache.ts:243-281 called from a cleanup trigger.  After the awaited
\* initializeDatabase() only microtasks run, so better-sqlite3 (251-256,
\* synchronous run) and the no-backend branch (273-276) finish inside the
\* calling task, and a flag set around the call is clear again when the task
\* ends.  sqlite3 (257-272) issues the DELETE and resolves in a callback:
\* the sweep stays in flight while other tasks run.
StartSweep(c, trigger, maxAgeSeconds, flagged) ==
  IF dbType = "sqlite3"
    THEN /\ cl' = [c EXCEPT
                     !.inFlight = Append(@, [trigger |-> trigger,
                                             flagged |-> flagged,
                                             minTimestamp |-> now - maxAgeSeconds]),
                     !.launched = @ + 1,
                     !.isCleanupRunning = IF flagged THEN TRUE ELSE @]
         /\ UNCHANGED <<cacheTable, lastSet>>
    ELSE /\ cl' = [c EXCEPT !.launched = @ + 1, !.ended = @ + 1,
                            !.isCleanupRunning = IF flagged THEN FALSE ELSE @]
         /\ cacheTable' = cleanupExpiredCache(cacheTable, maxAgeSeconds)
         /\ lastSet' = [lastSet EXCEPT !.live = FALSE]

\* startCacheCleanup, called once when the server listens (index.ts:198).
\* guarded (scraper.js:166-224): installs the interval and nothing else.
\* plain (scraper.js:295-318, cacheCleanup.js:12-32): sweeps, then installs
\* the interval.
ClStart ==
  /\ ~cl.started
  /\ LET c == [cl EXCEPT !.started = TRUE, !.startedAt = now]
     IN IF cleanupModule = "plain"
          THEN StartSweep([c EXCEPT !.startSweeps = 1], "start",
                          cleanupExpirationSeconds, FALSE)
          ELSE /\ cl' = c
               /\ UNCHANGED <<cacheTable, lastSet>>
  /\ UNCHANGED <<cacheCfgVars, deletedKeys, lastReturn, now, gca, lastGet, ops, apiCalls, cleanupModule>>
  /\ UNCHANGED clFrame

\* the interval has elapsed once more since the scheduler was started
TimerDue ==
  /\ cl.started
  /\ now - cl.startedAt >= (cl.fires + 1) * CleanupIntervalSeconds

\* scraper.js:190-194  timeSinceLastCleanup < actualInterval * 0.8
LastCleanupTooRecent ==
  /\ cl.lastCleanupTime > 0
  /\ 5 * (now - cl.lastCleanupTime) < 4 * CleanupIntervalSeconds

\* the setInterval callback.  guarded (scraper.js:181-214): skips while the
\* flag is set or the last cleanup is recent, else sets the flag, stamps
\* lastCleanupTime and sweeps.  plain (scraper.js:305-314,
\* cacheCleanup.js:23-30): sweeps.
ClTimerFire ==
  /\ TimerDue
  /\ LET c == [cl EXCEPT !.fires = @ + 1]
     IN IF cleanupModule = "plain"
          THEN StartSweep(c, "timer", cleanupExpirationSeconds, FALSE)
        ELSE IF cl.isCleanupRunning \/ LastCleanupTooRecent
          THEN /\ cl' = [c EXCEPT !.skipped = @ + 1]
               /\ UNCHANGED <<cacheTable, lastSet>>
        ELSE StartSweep([c EXCEPT !.lastCleanupTime = now], "timer",
                        cleanupExpirationSeconds, TRUE)
  /\ UNCHANGED <<cacheCfgVars, deletedKeys, lastReturn, now, gca, lastGet, ops, apiCalls, cleanupModule>>
  /\ UNCHANGED clFrame

\* scraper.js:258-281  runManualCleanup() of the guarded revision
ClManual ==
  /\ cl.started
  /\ cleanupModule = "guarded"
  /\ cl.calls < MaxSweepCalls
  /\ LET c == [cl EXCEPT !.calls = @ + 1]
     IN IF cl.isCleanupRunning
          THEN /\ cl' = [c EXCEPT !.skipped = @ + 1]
               /\ UNCHANGED <<cacheTable, lastSet>>
          ELSE StartSweep([c EXCEPT !.lastCleanupTime = now], "manual",
                          cleanupExpirationSeconds, TRUE)
  /\ UNCHANGED <<cacheCfgVars, deletedKeys, lastReturn, now, gca, lastGet, ops, apiCalls, cleanupModule>>
  /\ UNCHANGED clFrame

\* cacheService.ts:93-106  clearCache() awaits cleanupExpiredCache(1); it
\* neither reads nor sets the cleanup flag
ClClear ==
  /\ cl.started
  /\ cl.calls < MaxSweepCalls
  /\ StartSweep([cl EXCEPT !.calls = @ + 1], "clear", 1, FALSE)
  /\ UNCHANGED <<cacheCfgVars, deletedKeys, lastReturn, now, gca, lastGet, ops, apiCalls, cleanupModule>>
  /\ UNCHANGED clFrame

\* sqliteCache.ts:260  DELETE FROM articles_cache WHERE created_at <= ?
DeleteExpired(table, minTimestamp) ==
  {r \in table : ~(r.created_at <= minTimestamp)}

\* sqliteCache.ts:262-270: the sqlite3 callback of a sweep in flight, with an
\* error (resolve(0), nothing deleted) or with the rows deleted; then the
\* finally block of the trigger that set the flag (scraper.js:211-213,
\* 278-280)
ClSweepSettle ==
  /\ \E i \in 1..Len(cl.inFlight), ok \in BOOLEAN :
       LET sweep == cl.inFlight[i]
           rest == [j \in 1..(Len(cl.inFlight) - 1) |->
                      IF j < i THEN cl.inFlight[j] ELSE cl.inFlight[j + 1]]
       IN /\ cl' = [cl EXCEPT
                      !.inFlight = rest,
                      !.ended = @ + 1,
                      !.isCleanupRunning = IF sweep.flagged THEN FALSE ELSE @]
          /\ IF ok
               THEN /\ cacheTable' = DeleteExpired(cacheTable, sweep.minTimestamp)
                    /\ lastSet' = [lastSet EXCEPT !.live = FALSE]
               ELSE UNCHANGED <<cacheTable, lastSet>>
  /\ UNCHANGED <<cacheCfgVars, deletedKeys, lastReturn, now, gca, lastGet, ops, apiCalls, cleanupModule>>
  /\ UNCHANGED clFrame

\* time passes, a fifth of the interval at a time, up to the next firing
ClAdvance ==
  /\ cl.started
  /\ ~TimerDue
  /\ now - cl.startedAt < MaxIntervals * CleanupIntervalSeconds
  /\ now' = now + ClockStep
  /\ UNCHANGED <<cacheCfgVars, deletedKeys, lastReturn, cacheTable, gca, lastSet, lastGet, ops, apiCalls, clVars>>
  /\ UNCHANGED clFrame

(***************************************************************************)
(* Pure functions called on their own                                      *)
(***************************************************************************)

\* titles and descriptions of the listings handed to
\* categorizeArticleWithKeywords: no keyword, several keywords of one
\* category, two categories level, a later category ahead, capitals, a
\* keyword inside a longer word, a keyword that spans title and description
KwTitles == {
  <<"X", "y", "z">>,
  <<"S", "m", "a", "r", "t", " ", "T", "V">>,
  <<"B", "i", "k", "e", " ", "m", "a", "t">>,
  <<"L", "A", "P", "T", "O", "P">>,
  <<"C", "a", "p", "i", "t", "a", "l">>,
  <<"c", "a", "r">>,
  <<"C", "a", "r", " ", "s", "e", "a", "t", " ", "c", "o", "v", "e", "r">>,
  <<"T", "o", "y", " ", "g", "a", "m", "e">>,
  <<"W", "a", "t", "c", "h">>,
  <<"B", "o", "o", "k", " ", "t", "i", "c", "k", "e", "t">> }

KwDescriptions == {
  <<>>,
  <<"q">>,
  <<"n", "e", "w">>,
  <<"h", "o", "t", "e", "l">>,
  <<"r", "e", "n", "t", "a", "l">>,
  <<"P", "l", "a", "y">> }

KwArticles ==
  {Listing(t, d, <<"k">>) : t \in KwTitles, d \in KwDescriptions}

\* categorizeArticleWithKeywords tabulated over these listings
KwCategory == [a \in KwArticles |-> categorizeArticleWithKeywords(a)]

NoKw == [calls |-> 0, article |-> ListingPlain, category |-> "Other Deals"]

\* categorizeService.ts:154-242 called with one listing
KwCall(article) ==
  /\ kw.calls < MaxKwCalls
  /\ kw' = [calls |-> kw.calls + 1, article |-> article,
            category |-> KwCategory[article]]
  /\ UNCHANGED <<cfgVars, schedVars, cacheVars, store, catVars, rf, durVars, clVars, idc, dbi>>

\* links over an alphabet of three characters, of every length modulo 3
IdAlphabet == {"a", "B", "/"}

IdLinks ==
  UNION {[1..n -> IdAlphabet] : n \in 1..MaxLinkLen}

\* the same link on listings that differ in their other fields
IdArticles ==
  {Listing(t, <<>>, l) : t \in {<<"X">>, <<"Y">>}, l \in IdLinks}

NoIdc ==
  [calls |-> 0, link |-> <<>>, lookupId |-> <<>>, recordId |-> <<>>,
   storeId |-> <<>>, prevLink |-> <<>>, prevLookupId |-> <<>>]

\* one listing through categorizeArticles: its id as checkCache computes it
\* (categorizeService.ts:265), as saveToSupabase writes it (350) and as
\* supabaseService.toCategorizedArticle writes it (supabase.ts:188); the
\* ids of the listing before it are kept for comparison
IdCall(article) ==
  /\ idc.calls < MaxIdCalls
  /\ idc' = [calls |-> idc.calls + 1,
             link |-> article.link,
             lookupId |-> createArticleId(article.link),
             recordId |-> createArticleId(article.link),
             storeId |-> createUniqueId(article.link),
             prevLink |-> idc.link,
             prevLookupId |-> idc.lookupId]
  /\ UNCHANGED <<cfgVars, schedVars, cacheVars, store, catVars, rf, durVars, clVars, kw, dbi>>

PureIdle ==
  /\ kw = NoKw
  /\ idc = NoIdc

(***************************************************************************)
(* lib/sqliteCache.ts: initialisation of the cache database                *)
(***************************************************************************)

\* sqliteCache.ts:141, 188, 245: the operations that await initializeDatabase
DbCallers == {"cacheData", "getCachedData", "cleanupExpiredCache"}

\* sqliteCache.ts:47-52, 57, 75: what loading and running better-sqlite3 and
\* loading sqlite3 come to in the installation
BetterOutcomes == {"ok", "loadFails", "execFails"}

\* sqliteCache.ts:32-33: no handle and dbType 'none' before initializeDatabase
\* has run; held names the backend whose handle db holds
NoDbInit ==
  [pc |-> "unloaded", held |-> "none", waiter |-> "none", calls |-> 0,
   resolved |-> <<>>]

\* the module once its initialisation has settled with the pair db, dbType
DbInitialised ==
  dbi = [NoDbInit EXCEPT
           !.pc = "settled",
           !.held = IF ~db THEN "none"
                    ELSE IF dbType = "none" THEN "sqlite3" ELSE dbType]

dbiFrame ==
  <<cfgVars, schedVars, ttlConfig, cleanupExpirationSeconds, now, cacheTable,
    gca, lastSet, lastGet, lastReturn, deletedKeys, ops, apiCalls, store,
    catVars, rf, durVars, clVars, pureVars>>

\* sqliteCache.ts:68, 109, 40: resolve({ db, dbType }) to the caller
Resolution(caller, held, type) ==
  [caller |-> caller, db |-> held, dbType |-> type]

\* sqliteCache.ts:42-120, the executor of the promise: better-sqlite3 first
\* (47-68); when it throws, sqlite3 (75-112), whose Database constructor
\* returns the handle at once and reports the open in a callback; when
\* sqlite3 does not load either, the outer catch (114-119)
initializeDatabase(caller, better, sqlite3Loads) ==
  IF better = "ok"
  THEN /\ db' = TRUE
       /\ dbType' = "better-sqlite3"
       /\ dbi' = [dbi EXCEPT
                    !.pc = "settled", !.held = "better-sqlite3",
                    !.resolved = Append(@, Resolution(caller, "better-sqlite3",
                                                      "better-sqlite3"))]
  ELSE IF ~sqlite3Loads
  THEN /\ db' = FALSE
       /\ dbType' = "none"
       /\ dbi' = [dbi EXCEPT !.pc = "settled", !.held = "none"]
  ELSE /\ db' = TRUE
       /\ dbType' = IF better = "execFails" THEN "better-sqlite3" ELSE dbType
       /\ dbi' = [dbi EXCEPT
                    !.pc = "opening", !.held = "sqlite3", !.waiter = caller]

\* sqliteCache.ts:283-290: the call made when the module is loaded
DbModuleLoad(better, sqlite3Loads) ==
  /\ dbi.pc = "unloaded"
  /\ initializeDatabase("module", better, sqlite3Loads)
  /\ UNCHANGED dbiFrame

\* sqliteCache.ts:78-85: the callback of the sqlite3 open
DbOpened(err) ==
  /\ dbi.pc = "opening"
  /\ IF err
     THEN /\ dbi' = [dbi EXCEPT !.pc = "settled", !.waiter = "none"]
          /\ UNCHANGED dbType
     ELSE /\ dbType' = "sqlite3"
          /\ dbi' = [dbi EXCEPT !.pc = "creating"]
  /\ UNCHANGED <<db, dbiFrame>>

\* sqliteCache.ts:88-111: the callbacks of CREATE TABLE and CREATE INDEX
DbCreated(err) ==
  /\ dbi.pc = "creating"
  /\ dbi' = [dbi EXCEPT
               !.pc = "settled", !.waiter = "none",
               !.resolved = IF err THEN @
                            ELSE Append(@, Resolution(dbi.waiter, dbi.held,
                                                      dbType))]
  /\ UNCHANGED <<db, dbType, dbiFrame>>

\* sqliteCache.ts:38-42 awaited by an operation: with a handle in db the
\* pair as it stands (40), otherwise the executor again
DbCall(caller, better, sqlite3Loads) ==
  /\ dbi.pc # "unloaded"
  /\ dbi.calls < MaxInitCalls
  /\ IF db
     THEN /\ dbi' = [dbi EXCEPT
                       !.calls = @ + 1,
                       !.resolved = Append(@, Resolution(caller, dbi.held,
                                                         dbType))]
          /\ UNCHANGED <<db, dbType>>
     ELSE /\ initializeDatabase(caller, better, sqlite3Loads)
  /\ UNCHANGED dbiFrame


(***************************************************************************)
(* Specifications                                                          *)
(***************************************************************************)

SchedulerIdle ==
  /\ schedulerFetchPages = 1
  /\ isJobRunning = FALSE
  /\ tick = [t \in Ticks |-> "pending"]
  /\ run = [t \in Runs |-> NoRun]
  /\ fetches = [t \in Runs |-> 0]
  /\ persists = [t \in Runs |-> 0]
  /\ releases = [t \in Ticks |-> 0]

CacheIdle ==
  /\ ttlConfig = 3
  /\ cleanupExpirationSeconds = 3
  /\ dbType = "better-sqlite3"
  /\ db = TRUE
  /\ now = 0
  /\ cacheTable = {}
  /\ gca = NoCall
  /\ lastSet = NoSet
  /\ lastGet = NoGet
  /\ lastReturn = NoReturn
  /\ deletedKeys = {}
  /\ ops = 0
  /\ apiCalls = 0

CatIdle ==
  /\ openaiApiKey = FALSE
  /\ rejected = {}
  /\ cat = NoCat
  /\ rf = NoRefresh

Init ==
  /\ supabaseIsConfigured \in BOOLEAN
  /\ DurIdle
  /\ PureIdle
  /\ CleanupIdle
  /\ configModule \in ConfigModules
  /\ schedulerFetchPages \in 0..(SchedulerPageCap + 1)
  /\ isJobRunning = FALSE
  /\ tick = [t \in Ticks |-> "pending"]
  /\ run = [t \in Runs |-> NoRun]
  /\ fetches = [t \in Runs |-> 0]
  /\ persists = [t \in Runs |-> 0]
  /\ releases = [t \in Ticks |-> 0]
  /\ CacheIdle
  /\ store = {}
  /\ CatIdle
  /\ DbInitialised

Next ==
  \E t \in Ticks :
    \/ CronTickSkip(t)
    \/ CronTickStart(t)
    \/ CronTickResponse(t)
    \/ CronTickTimeout(t)
    \/ CronTickRequestError(t)
    \/ HandlerStart(t)
    \/ RunFetched(t)
    \/ RunBatchSend(t)
    \/ RunBatchDone(t)
    \/ RunFinish(t)

Spec == Init /\ [][Next]_vars

\* a deployment on config.js with SCHEDULER_FETCH_PAGES = 1
DirectInit ==
  /\ supabaseIsConfigured \in BOOLEAN
  /\ DurIdle
  /\ PureIdle
  /\ CleanupIdle
  /\ configModule = "config.js"
  /\ schedulerFetchPages = 1
  /\ isJobRunning = FALSE
  /\ tick = [t \in Ticks |-> "pending"]
  /\ run = [t \in Runs |-> NoRun]
  /\ fetches = [t \in Runs |-> 0]
  /\ persists = [t \in Runs |-> 0]
  /\ releases = [t \in Ticks |-> 0]
  /\ CacheIdle
  /\ store = {}
  /\ CatIdle
  /\ DbInitialised

\* the scheduler together with requests for the refresh endpoint that no
\* tick made
DirectNext ==
  \/ Next
  \/ \E d \in DirectCalls :
       \/ DirectRequest(d)
       \/ HandlerStart(d)
       \/ RunFetched(d)
       \/ RunBatchSend(d)
       \/ RunBatchDone(d)
       \/ RunFinish(d)

DirectSpec == DirectInit /\ [][DirectNext]_vars

\* The awaited axios call always settles: it resolves, rejects, or is rejected
\* by its own 60 s timeout (scheduler.ts:48).
FairSpec ==
  /\ Spec
  /\ \A t \in Ticks :
       WF_vars(CronTickResponse(t) \/ CronTickTimeout(t) \/ CronTickRequestError(t))

CacheInit ==
  /\ supabaseIsConfigured \in BOOLEAN
  /\ DurIdle
  /\ PureIdle
  /\ CleanupIdle
  /\ configModule \in ConfigModules
  /\ SchedulerIdle
  /\ ttlConfig \in TtlValues
  /\ cleanupExpirationSeconds \in TtlValues
  /\ dbType \in {"better-sqlite3", "sqlite3", "none"}
  /\ db \in DbHandles(dbType)
  /\ now = 0
  /\ store \in StoreSeeds
  /\ cacheTable \in PersistedTables
  /\ gca = NoCall
  /\ lastSet = NoSet
  /\ lastGet = NoGet
  /\ lastReturn = NoReturn
  /\ deletedKeys = {}
  /\ ops = 0
  /\ apiCalls = 0
  /\ CatIdle
  /\ DbInitialised

CacheNext ==
  \/ \E d \in DaysInputs, l \in LimitInputs, skip \in BOOLEAN : GcaCall(d, l, skip)
  \/ GcaLookup
  \/ GcaQuery
  \/ GcaStore
  \/ AdvanceClock
  \/ CleanupSweep
  \/ \E key \in CacheKeys : ApiDeleteCachedValue(key)
  \/ ApiClearCache

CacheSpec == CacheInit /\ [][CacheNext]_vars

\* cacheService.ts exercised on its own: writes with an explicit ttl, reads,
\* deletes, clears and sweeps, while the clock runs
CacheApiInit ==
  /\ supabaseIsConfigured = TRUE
  /\ DurIdle
  /\ PureIdle
  /\ CleanupIdle
  /\ configModule = "config.ts"
  /\ SchedulerIdle
  /\ ttlConfig \in TtlValues
  /\ cleanupExpirationSeconds \in TtlValues
  /\ dbType \in {"better-sqlite3", "sqlite3", "none"}
  /\ db \in DbHandles(dbType)
  /\ now = 0
  /\ store = {}
  /\ cacheTable = {}
  /\ gca = NoCall
  /\ lastSet = NoSet
  /\ lastGet = NoGet
  /\ lastReturn = NoReturn
  /\ deletedKeys = {}
  /\ ops = 0
  /\ apiCalls = 0
  /\ CatIdle
  /\ DbInitialised

CacheApiNext ==
  \/ \E key \in CacheKeys, ttl \in TtlValues : ApiSetCachedValue(key, ttl)
  \/ \E key \in CacheKeys : ApiGetCachedValue(key)
  \/ \E key \in CacheKeys : ApiDeleteCachedValue(key)
  \/ ApiClearCache
  \/ CleanupSweep
  \/ AdvanceClock

CacheApiSpec == CacheApiInit /\ [][CacheApiNext]_vars

CatInit ==
  /\ supabaseIsConfigured \in BOOLEAN
  /\ DurIdle
  /\ PureIdle
  /\ CleanupIdle
  /\ configModule = "config.ts"
  /\ rf = NoRefresh
  /\ openaiApiKey \in BOOLEAN
  /\ store \in CatStoreSeeds
  /\ rejected \in RejectSeeds
  /\ cat = NoCat
  /\ SchedulerIdle
  /\ CacheIdle
  /\ DbInitialised

CatNext ==
  \/ \E articles \in ArticleInputs, useAIOption \in BOOLEAN, saveOption \in BOOLEAN :
       CatCall(articles, useAIOption, saveOption)
  \/ CatLookupBatch
  \/ CatClassifyAI
  \/ CatSaveBatch

CatSpec == CatInit /\ [][CatNext]_vars

\* POST /api/categorize as either revision of routes/categorize serves it:
\* categorize.ts through categorizeArticles, categorize.js by itself
CatRouteNext ==
  \/ \E articles \in ArticleInputs, useAIOption \in BOOLEAN, saveOption \in BOOLEAN :
       CatCall(articles, useAIOption, saveOption)
  \/ CatLookupBatch
  \/ CatClassifyAI
  \/ CatSaveBatch
  \/ \E articles \in ArticleInputs : JsCategorize(articles)
  \/ JsLookupBatch
  \/ JsClassifyBatch
  \/ JsStoreBatch

CatRouteSpec == CatInit /\ [][CatRouteNext]_vars

\* categorizeArticles on inputs longer than one lookup sub-batch, in a
\* deployment without OPENAI_API_KEY (keyword strategy)
CatLongInit ==
  /\ supabaseIsConfigured \in BOOLEAN
  /\ DurIdle
  /\ PureIdle
  /\ CleanupIdle
  /\ configModule = "config.ts"
  /\ rf = NoRefresh
  /\ openaiApiKey = FALSE
  /\ store \in LongStoreSeeds
  /\ rejected \in RejectSeeds
  /\ cat = NoCat
  /\ SchedulerIdle
  /\ CacheIdle
  /\ DbInitialised

CatLongNext ==
  \/ \E articles \in LongInputs, useAIOption \in BOOLEAN, saveOption \in BOOLEAN :
       CatCall(articles, useAIOption, saveOption)
  \/ CatLookupBatch
  \/ CatSaveBatch

CatLongSpec == CatLongInit /\ [][CatLongNext]_vars

\* fetchCategorizeAndCacheArticles called directly (GET
\* /api/articles/fetch-categorize-cache), with the categorize calls it makes
RefreshInit ==
  /\ supabaseIsConfigured \in BOOLEAN
  /\ DurIdle
  /\ PureIdle
  /\ CleanupIdle
  /\ configModule \in ConfigModules
  /\ openaiApiKey \in BOOLEAN
  /\ store \in RefreshStoreSeeds
  /\ rejected \in RejectSeeds
  /\ cat = NoCat
  /\ rf = NoRefresh
  /\ SchedulerIdle
  /\ CacheIdle
  /\ DbInitialised

RefreshNext ==
  \/ \E maxPagesOption \in MaxPagesInputs, batchSizeOption \in BatchSizeInputs :
       RfCall(maxPagesOption, batchSizeOption)
  \/ RfFetched
  \/ RfBatchSend
  \/ RfBatchSkip
  \/ RfBatchDone
  \/ RfFinish
  \/ CatLookupBatch
  \/ CatClassifyAI
  \/ CatSaveBatch

RefreshSpec == RefreshInit /\ [][RefreshNext]_vars

\* supabaseService.getData called directly
DurableInit ==
  /\ supabaseIsConfigured \in BOOLEAN
  /\ DurIdle
  /\ PureIdle
  /\ CleanupIdle
  /\ configModule \in ConfigModules
  /\ store \in CatStoreSeeds
  /\ SchedulerIdle
  /\ CacheIdle
  /\ CatIdle
  /\ DbInitialised

DurableNext ==
  \/ \E operator \in InOperators, ids \in IdLists : GetDataCall(InFilter(operator, ids))
  \/ \E id \in Range(EqIds) : GetDataCall(EqFilter(id))
  \/ GetDataCall(NoFilter)
  \/ GetDataSettle

DurableSpec == DurableInit /\ [][DurableNext]_vars

\* the cleanup scheduler of either revision over each backend, with
\* runManualCleanup and clearCache called while it runs; the process starts
\* on the rows an earlier process left
CleanupInit ==
  /\ supabaseIsConfigured = TRUE
  /\ configModule = "config.ts"
  /\ DurIdle
  /\ PureIdle
  /\ SchedulerIdle
  /\ ttlConfig = 3
  /\ cleanupExpirationSeconds \in TtlValues
  /\ dbType \in {"better-sqlite3", "sqlite3", "none"}
  /\ db \in DbHandles(dbType)
  /\ now \in 1..MaxTime
  /\ store = {}
  /\ cacheTable \in PersistedTables
  /\ gca = NoCall
  /\ lastSet = NoSet
  /\ lastGet = NoGet
  /\ lastReturn = NoReturn
  /\ deletedKeys = {}
  /\ ops = 0
  /\ apiCalls = 0
  /\ CatIdle
  /\ cleanupModule \in CleanupModules
  /\ cl = NoCleanup
  /\ DbInitialised

CleanupNext ==
  \/ ClStart
  \/ ClTimerFire
  \/ ClManual
  \/ ClClear
  \/ ClSweepSettle
  \/ ClAdvance

CleanupSpec == CleanupInit /\ [][CleanupNext]_vars

\* the pure functions applied to listings drawn from bounded sets
PureInit ==
  /\ supabaseIsConfigured = TRUE
  /\ configModule = "config.ts"
  /\ DurIdle
  /\ CleanupIdle
  /\ PureIdle
  /\ SchedulerIdle
  /\ CacheIdle
  /\ store = {}
  /\ CatIdle
  /\ DbInitialised

KwNext == \E article \in KwArticles : KwCall(article)

KwSpec == PureInit /\ [][KwNext]_vars

IdNext == \E article \in IdArticles : IdCall(article)

IdSpec == PureInit /\ [][IdNext]_vars

\* sqliteCache.ts:32-33 and 283: the module before its first statement runs
DbInitInit ==
  /\ supabaseIsConfigured = TRUE
  /\ configModule = "config.ts"
  /\ DurIdle
  /\ CleanupIdle
  /\ PureIdle
  /\ SchedulerIdle
  /\ ttlConfig = 3
  /\ cleanupExpirationSeconds = 3
  /\ dbType = "none"
  /\ db = FALSE
  /\ now = 0
  /\ cacheTable = {}
  /\ gca = NoCall
  /\ lastSet = NoSet
  /\ lastGet = NoGet
  /\ lastReturn = NoReturn
  /\ deletedKeys = {}
  /\ ops = 0
  /\ apiCalls = 0
  /\ store = {}
  /\ CatIdle
  /\ dbi = NoDbInit

DbInitNext ==
  \/ \E better \in BetterOutcomes, sqlite3Loads \in BOOLEAN :
       DbModuleLoad(better, sqlite3Loads)
  \/ \E err \in BOOLEAN : DbOpened(err)
  \/ \E err \in BOOLEAN : DbCreated(err)
  \/ \E caller \in DbCallers, better \in BetterOutcomes, sqlite3Loads \in BOOLEAN :
       DbCall(caller, better, sqlite3Loads)

DbInitSpec == DbInitInit /\ [][DbInitNext]_vars

(***************************************************************************)
(* Claims about the refresh scheduler                                      *)
(***************************************************************************)

\* C1: at any moment at most one execution of the refresh job (the
\* server-side fetch -> categorize -> persist run) is active.
C1_AtMostOneRunActive ==
  Cardinality({t \in Ticks : run[t].phase \in RunActivePhases}) <= 1

\* C2: every tick that sets the run-flag eventually clears it on every exit
\* path (response, error response, timeout, request error); whenever no tick
\* body is executing the flag is false, so a later tick can run.
C2_FlagReleasedOnEveryExit ==
  /\ \A t \in Ticks : (tick[t] = "awaiting") ~> (tick[t] = "done")
  /\ [][\A t \in Ticks :
          (tick[t] = "awaiting" /\ tick'[t] # "awaiting")
             => (tick'[t] = "done" /\ ~isJobRunning')]_vars
  /\ []((\A t \in Ticks : tick[t] # "awaiting") => ~isJobRunning)

\* A run failed, its tick released the flag, and a later tick is running.
C2_Witness ==
  \E t, u \in Ticks :
    /\ t < u
    /\ tick[t] = "done" /\ run[t].phase = "failed"
    /\ tick[u] = "awaiting" /\ isJobRunning

\* C3: a tick that finds the flag set is a no-op (no fetch, no persist, flag
\* and running execution untouched); the flag is cleared exactly once per
\* tick that set it, and only by that tick.
C3_SkipIsNoOpAndSingleRelease ==
  /\ [][\A t \in Ticks :
          (tick[t] = "pending" /\ tick'[t] = "skipped")
             => UNCHANGED <<isJobRunning, run, fetches, persists, releases>>]_vars
  /\ [](\A t \in Ticks :
          tick[t] = "skipped"
             => (run[t] = NoRun /\ fetches[t] = 0 /\ persists[t] = 0 /\ releases[t] = 0))
  /\ [](\A t \in Ticks :
          releases[t] = (IF tick[t] = "done" THEN 1 ELSE 0))
  /\ [][(isJobRunning /\ ~isJobRunning')
          => \E t \in Ticks :
               /\ tick[t] = "awaiting" /\ tick'[t] = "done"
               /\ releases'[t] = releases[t] + 1
               /\ \A u \in Ticks \ {t} : tick[u] # "awaiting"]_vars

\* A tick was skipped while another tick's run was fetching and persisting.
C3_Witness ==
  \E t, u \in Ticks :
    /\ tick[u] = "skipped"
    /\ tick[t] = "awaiting" /\ isJobRunning
    /\ fetches[t] > 0 /\ persists[t] > 0

(***************************************************************************)
(* Claims about the ephemeral cache and getCachedArticles                  *)
(***************************************************************************)

\* C4: after a getCachedArticles call wrote a non-empty result through, a
\* repeated call with the same (days, limit) whose lookup happens before the
\* TTL elapses, with no sweep, delete or clear in between, is served from the
\* ephemeral cache: tagged fromLocalCache = true, no durable query issued.
C4_RepeatServedFromEphemeral ==
  (gca.pc \in {"query", "store", "returned"} /\ ~gca.skipLocalCache /\ gca.due)
    => /\ gca.pc = "returned"
       /\ gca.lookup # Null
       /\ gca.queries = 0
       /\ gca.result.stats.fromLocalCache

C6_TtlBoundary ==
  (lastGet.valid /\ lastSet.by = 0 /\ lastSet.key = lastGet.key /\ lastSet.ttl >= 2)
    => /\ (lastSet.live /\ lastGet.at = lastSet.at + lastSet.ttl - 1)
            => lastGet.value = lastSet.value
       /\ (lastGet.at = lastSet.at + lastSet.ttl + 1) => lastGet.value = Null

(***************************************************************************)
(* Claims about categorizeArticles                                         *)
(***************************************************************************)

\* C7 as stated: if every item passed to categorizeArticles already has a
\* record in the store, the call makes no classifier call and no upsert and
\* returns fromCache = true.
C7_AllStoredNoWork ==
  cat.allStored =>
    /\ cat.aiCalls = 0
    /\ cat.upserts = 0
    /\ cat.pc = "returned" => cat.result.fromCache

\* C7 amended: for a non-empty input, with the store configured and every
\* lookup sub-batch answered, if every item already has a record then nothing
\* is classified (by the classifier or by keywords), nothing is upserted, the
\* store is left as it was and the call returns fromCache = true.
C7_AllStoredAndFoundNoWork ==
  /\ [](( /\ cat.allStored
          /\ cat.articles # <<>>
          /\ isSupabaseConfigured
          /\ cat.lookupsFailed = 0 ) =>
            /\ cat.aiCalls = 0
            /\ cat.upserts = 0
            /\ cat.articleCategories = EmptyMap
            /\ cat.pc \in {"lookup", "returned"}
            /\ cat.pc = "returned" => cat.result.fromCache)
  /\ [][(cat'.allStored /\ cat'.lookupsFailed = 0 /\ isSupabaseConfigured)
          => store' = store]_vars

C7_Witness ==
  /\ cat.pc = "returned"
  /\ cat.allStored
  /\ Len(cat.articles) = 2
  /\ cat.articles[1] # cat.articles[2]
  /\ cat.useAI
  /\ cat.save
  /\ isSupabaseConfigured
  /\ cat.lookups = 1
  /\ cat.lookupsFailed = 0
  /\ cat.result.fromCache
  /\ Len(cat.cachedArticleIds) = 2

\* C8: when the classifier is enabled and its call raises an error or returns
\* a label outside the enumeration, the item gets the category the keyword
\* strategy computes for it.
C8_FallbackToKeywords ==
  \A i \in 1..Len(cat.aiLog) :
    (cat.aiLog[i].outcome.error \/ cat.aiLog[i].outcome.text \notin PredefinedCategorySet)
      => cat.aiLog[i].category = KeywordCategory[cat.aiLog[i].article]

\* C9: every category assigned to a newly classified item and every category
\* value persisted is one of the 12 predefined categories; an item that
\* cannot be classified (classifier error, label outside the list or empty,
\* no keyword match) gets 'Other Deals'.
C9_CategoriesPredefined ==
  /\ Cardinality(PredefinedCategorySet) = 12
  /\ \A l \in DOMAIN cat.articleCategories :
       cat.articleCategories[l] \in PredefinedCategorySet
  /\ \A r \in cat.written : r.category \in PredefinedCategorySet /\ r \in store
  /\ \A r \in store : r.category \in PredefinedCategorySet
  /\ \A i \in 1..Len(cat.aiLog) :
       (cat.aiLog[i].outcome.error \/ cat.aiLog[i].outcome.text \notin PredefinedCategorySet)
         => cat.aiLog[i].category = "Other Deals"
  /\ ~cat.useAI =>
       \A l \in DOMAIN cat.articleCategories :
         (\E a \in NoKeywordListings : a.link = l)
           => cat.articleCategories[l] = "Other Deals"

C9_Witness ==
  /\ cat.pc = "returned"
  /\ \E i \in 1..Len(cat.aiLog) : cat.aiLog[i].outcome.text = "Gadgets"
  /\ \E i \in 1..Len(cat.aiLog) : cat.aiLog[i].outcome.text = "Travel"
  /\ \E r \in cat.written : r.category = "Other Deals"
  /\ \E r \in cat.written : r.category = "Travel"

\* C10: when a batch upsert of saveToSupabase fails, every record of the
\* batch is retried on its own, so each record the store accepts individually
\* is persisted, and the count returned is the number of records persisted.
C10_FailedBatchRetried ==
  cat.pc = "returned" =>
    /\ \A i \in 1..Len(cat.failedBatches) :
         \A j \in 1..Len(cat.failedBatches[i]) :
           cat.failedBatches[i][j].article_id \notin rejected
             => cat.failedBatches[i][j] \in store
    /\ cat.savedCount = Cardinality({r \in Range(cat.records) : r \in store})

\* the input positions checkCache put into the sub-batch starting at b
SubBatchPositions(b) ==
  b..Min(b + LookupBatchSize - 1, Len(cat.articles))

\* the listing with this link is in the result of the call
InResult(link) ==
  \E k \in DOMAIN cat.result.categorizedArticles :
    \E j \in 1..Len(cat.result.categorizedArticles[k]) :
      cat.result.categorizedArticles[k][j].link = link

\* the number of sub-batches an input of n ids is cut into
SubBatchCount(n) == (n + LookupBatchSize - 1) \div LookupBatchSize

C12_NotConfiguredFailsExplicitly ==
  ~supabaseIsConfigured =>
    /\ gca.pc # "idle" =>
         /\ gca.pc = "threw"
         /\ gca.error = "Cache service unavailable"
         /\ gca.lookup = Null /\ gca.queries = 0 /\ gca.writes = 0
    /\ rf.pc # "idle" =>
         /\ rf.pc = "threw"
         /\ rf.error = "Cache service unavailable"
         /\ rf.fetches = 0 /\ rf.posts = 0

\* C13: a getCachedArticles request whose limit exceeds the ceiling is
\* rejected with the validation error, and the call makes no ephemeral
\* lookup, no durable query and no ephemeral write.
C13_LimitAboveCeilingRejected ==
  (gca.pc # "idle" /\ gca.limit > MAX_RESULTS)
    => /\ gca.pc = "threw"
       /\ gca.error = "Invalid request"
       /\ gca.lookup = Null /\ gca.queries = 0 /\ gca.writes = 0
       /\ gca.result = Null

\* a request above the ceiling was rejected in a configured deployment whose
\* ephemeral cache holds a row
C13_Witness ==
  /\ gca.pc = "threw"
  /\ gca.limit > MAX_RESULTS
  /\ gca.error = "Invalid request"
  /\ ConfigCheckError = "none"
  /\ cacheTable # {}

\* C14: a durable query whose filter is membership in an empty id list
\* returns the empty list and issues no network call to the store.
C14_EmptyMembershipNoNetwork ==
  (dq.pc # "idle" /\ IsEmptyInFilter(dq.filter))
    => /\ dq.networkCalls = 0
       /\ serviceClient => (dq.pc = "returned" /\ dq.result = <<>>)

\* an empty membership query was answered while the store holds rows
C14_Witness ==
  /\ dq.pc = "returned"
  /\ IsEmptyInFilter(dq.filter)
  /\ dq.filter.operator = <<"I", "N">>
  /\ dq.result = <<>>
  /\ store # {}

\* C15: persisting an item whose article_id already has a record leaves
\* exactly one record for that id, and it holds the fields of the later
\* write.
C15_UpsertKeepsOneRecord ==
  /\ \A r1, r2 \in store : r1.article_id = r2.article_id => r1 = r2
  /\ cat.pc \in {"save", "returned"} => \A r \in cat.written : r \in store

\* a record present when the refresh started was written again with other
\* fields, and the later write is the one the store holds
C15_Witness ==
  /\ cat.pc = "returned"
  /\ \E r \in cat.written : \E r0 \in rf.store0 :
       /\ r.article_id = r0.article_id
       /\ r # r0
       /\ r \in store
       /\ r0 \notin store

\* the categories under which the result of the refresh lists this link
CategoriesInResult(link) ==
  {k \in DOMAIN rf.result.categorizedArticles :
     \E j \in 1..Len(rf.result.categorizedArticles[k]) :
       rf.result.categorizedArticles[k][j].link = link}

\* the category one categorizeArticles call over all the items assigns with
\* the classifier disabled: the stored category when the item has a record
\* at the start, else its keyword category
SingleBatchCategory(article) ==
  IF \E r \in rf.store0 : r.article_id = createArticleId(article.link)
    THEN (CHOOSE r \in rf.store0 :
            r.article_id = createArticleId(article.link)).category
  ELSE KeywordCategory[article]

\* C16: with the classifier disabled, however the items are cut into
\* batches (one batch of all N items, batches of N/2, batches of one), every
\* item ends under the one category the single batch gives it; nothing a
\* batch leaves behind changes the category of an item of a later batch.
\* Runs in which a lookup failed or a batch was skipped are left out.
C16_BatchSplitSameCategories ==
  (rf.pc = "returned" /\ ~openaiApiKey /\ rf.lookupsFailed = 0 /\ rf.skipped = 0)
    => \A i \in 1..Len(rf.allArticles) :
         CategoriesInResult(rf.allArticles[i].link)
           = {SingleBatchCategory(rf.allArticles[i])}

\* three items were categorized in two batches with the classifier disabled,
\* one of them already stored at the start
C16_Witness ==
  /\ rf.pc = "returned"
  /\ ~openaiApiKey
  /\ rf.lookupsFailed = 0 /\ rf.skipped = 0
  /\ Len(rf.allArticles) = 3
  /\ Len(rf.batches) = 2
  /\ rf.merged = 2
  /\ \E i \in 1..Len(rf.allArticles) :
       \E r \in rf.store0 : r.article_id = createArticleId(rf.allArticles[i].link)

\* the refresh call has settled
RfSettled == rf.pc \in {"returned", "threw"}

RECURSIVE ItemsOfPages(_, _)
\* the number of listings on the pages that were fetched without an error
ItemsOfPages(pages, n) ==
  IF n = 0 THEN 0
  ELSE ItemsOfPages(pages, n - 1)
         + (IF pages[n].error THEN 0 ELSE Len(pages[n].articles))

\* C17: a refresh run fails exactly when no item was fetched over all pages
\* or no item was categorized over all batches.  A failed page contributes
\* no item; a failed batch is skipped and the following batches are still
\* sent; a run with at least one item fetched and one batch categorized
\* reports success.
C17_FailureOnlyWhenNothingDone ==
  /\ rf.pc = "threw" <=>
       (RfSettled /\ (\/ Len(rf.allArticles) = 0
                      \/ TotalCategorized(rf.allCategorizedArticles) = 0))
  /\ rf.pc = "returned" => rf.result.success
  /\ rf.pc \in {"batching", "returned", "threw"} =>
       Len(rf.allArticles) = ItemsOfPages(rf.pages, Len(rf.pages))
  /\ (RfSettled /\ Len(rf.allArticles) > 0) =>
       /\ rf.posts = Len(rf.batches)
       /\ rf.skipped + rf.merged = rf.posts
  /\ (RfSettled /\ Len(rf.allArticles) > 0 /\ rf.merged >= 1) =>
       rf.pc = "returned"

\* a run succeeded although one page failed and one batch was skipped
C17_Witness ==
  /\ rf.pc = "returned"
  /\ \E n \in 1..Len(rf.pages) : rf.pages[n].error
  /\ rf.skipped >= 1
  /\ rf.merged >= 1
  /\ rf.result.stats.totalCategorized < rf.result.stats.totalArticles

\* C18: no two Ephemeral Cache sweeps (started by the cleanup timer, by
\* runManualCleanup or by clearCache) are in flight at the same time, and the
\* cleanup run-flag is set only while a sweep that set it is in flight.
C18_NoTwoSweepsInFlight ==
  /\ Len(cl.inFlight) <= 1
  /\ cl.isCleanupRunning
       => \E i \in 1..Len(cl.inFlight) : cl.inFlight[i].flagged

\* C19: once the cleanup scheduler is started it has performed one sweep of
\* its own, before the first interval elapses.
C19_SweepsImmediatelyAtStart ==
  cl.started => cl.startSweeps = 1

\* C20: if neither SQLite backend can be initialized, every Ephemeral Cache
\* operation completes without raising (get is a miss, set and delete hand
\* back false, cleanup hands back 0), and a getCachedArticles call that passed
\* its checks settles as its durable query settles: it returns the result
\* built from the rows of the Durable Store, with no write, or fails with the
\* error of the query.
C20_NoBackendNothingRaises ==
  dbType = "none" =>
    /\ ~lastReturn.raised
    /\ lastReturn.op \in {"get", "set", "delete"} => ~lastReturn.ok
    /\ lastReturn.op \in {"cleanup", "clear"} => lastReturn.deleted = 0
    /\ gca.pc = "returned"
         => /\ gca.lookup = Null
            /\ gca.queries = 1
            /\ gca.writes = 0
            /\ \E data \in QueryResults(gca.days, gca.limit) :
                 gca.result = BuildResult(data, gca.days)
    /\ (gca.pc = "threw" /\ gca.queries = 1)
         => gca.error = "Failed to fetch cached articles"

\* both modules failed to load; a call found rows in the Durable Store, tried
\* the write-through, was handed false and returned the rows
C20_Witness ==
  /\ dbType = "none"
  /\ ~db
  /\ gca.pc = "returned"
  /\ ~gca.skipLocalCache
  /\ gca.result.stats.totalArticles > 0
  /\ lastReturn.op = "set"
  /\ ~lastReturn.ok

\* C21: after deleteCachedValue(key) has completed and until the next
\* setCachedValue(key, ...), getCachedValue(key) returns absent, also for a
\* key that was set before the delete.
C21_DeletedKeyReadsAbsent ==
  \A key \in deletedKeys : getCachedValue(cacheTable, key) = Null

\* a call wrote its result through, the key was deleted on a working backend,
\* and the lookup of a later call for the same key was a miss
C21_Witness ==
  /\ dbType # "none"
  /\ ArticlesCacheKey(gca.days, gca.limit) \in deletedKeys
  /\ lastSet.key = ArticlesCacheKey(gca.days, gca.limit)
  /\ lastSet.by > 0
  /\ lastSet.by < gca.id
  /\ gca.pc = "query"
  /\ lastReturn.op = "get"
  /\ ~lastReturn.ok

\* C22: a clearCache() call on a working backend removes every entry written
\* more than 1 second before the call and leaves in place every entry written
\* within the last second.
C22_ClearKeepsLastSecond ==
  [][(lastReturn'.op = "clear" /\ ops' = ops + 1 /\ dbType # "none")
       => /\ \A r \in cacheTable : r.created_at < now - 1 => r \notin cacheTable'
          /\ \A r \in cacheTable : r.created_at >= now - 1 => r \in cacheTable']_vars

\* the number of keywords of the i-th category that occur, compared without
\* regard to case, in title + ' ' + description
KeywordScore(article, i) ==
  LET text == article.title \o <<" ">> \o article.description
      keywords == categoryKeywords[i].keywords
  IN Cardinality({k \in 1..Len(keywords) :
                    Includes(ToLowerCase(text), ToLowerCase(keywords[k]))})

\* the scores tabulated over the listings and the categories
KeywordScores ==
  [a \in KwArticles |-> [i \in 1..Len(categoryKeywords) |-> KeywordScore(a, i)]]

HighestScore(article) ==
  LET scores == {KeywordScores[article][i] : i \in 1..Len(categoryKeywords)}
  IN CHOOSE m \in scores : \A n \in scores : n <= m

C24_IdIsInjectiveFunctionOfLink ==
  /\ idc.calls > 0
       => /\ idc.lookupId = idc.recordId
          /\ idc.lookupId = idc.storeId
  /\ idc.calls > 1
       => (idc.link = idc.prevLink <=> idc.lookupId = idc.prevLookupId)

\* two different links that share their first two characters
C24_Witness ==
  /\ idc.calls > 1
  /\ idc.link # idc.prevLink
  /\ Len(idc.link) = 3
  /\ Len(idc.prevLink) = 3
  /\ SubSeq(idc.link, 1, 2) = SubSeq(idc.prevLink, 1, 2)
  /\ idc.lookupId # idc.prevLookupId

\* the input items of the call whose id no lookup of the call returned
UncachedInputs ==
  {i \in 1..Len(cat.articles) :
     createArticleId(cat.articles[i].link) \notin Range(cat.cachedArticleIds)}

\* C25: categorizeArticles returns fromCache = TRUE exactly when the input is
\* non-empty and none of its items was uncached; a call that classified at
\* least one item returns fromCache = FALSE, whatever the number of its other
\* items that were cached.
C25_FromCacheIffNothingUncached ==
  cat.pc = "returned" =>
    /\ cat.result.fromCache
         <=> (cat.articles # <<>> /\ UncachedInputs = {})
    /\ (DOMAIN cat.articleCategories # {} \/ cat.aiCalls > 0)
         => ~cat.result.fromCache

\* a call of two items returned, one found in the store and one classified
C25_Witness ==
  /\ cat.pc = "returned"
  /\ Len(cat.articles) = 2
  /\ Len(cat.cachedArticleIds) = 1
  /\ DOMAIN cat.articleCategories # {}
  /\ ~cat.result.fromCache

\* a call of two items returned with both found in the store
C25_WitnessAllCached ==
  /\ cat.pc = "returned"
  /\ Len(cat.articles) = 2
  /\ UncachedInputs = {}
  /\ cat.result.fromCache

\* the lookups of the call have all settled
LookupsDone == cat.pc \notin {"idle", "lookup", "jsLookup"}

\* every item the lookups left uncached has its category
AllClassified ==
  \A i \in 1..Len(cat.uncached) : cat.uncached[i].link \in DOMAIN cat.articleCategories

\* an upsert of the call has been issued
PersistIssued == cat.pc \in {"save", "jsStore"} \/ cat.upserts > 0

\* C26: within one categorize call every lookup sub-batch has settled
\* before an item is classified, every item is classified before the first
\* upsert is issued, and once the call has returned its result no upsert of
\* it is still outstanding.
C26_LookupClassifyPersistThenReturn ==
  /\ (cat.aiCalls > 0 \/ DOMAIN cat.articleCategories # {}) => LookupsDone
  /\ PersistIssued => (LookupsDone /\ AllClassified)
  /\ cat.result # Null => cat.pc = "returned"

\* the first two parts of C26 alone: lookup, then classification, then persist
C26_LookupClassifyPersistInOrder ==
  /\ (cat.aiCalls > 0 \/ DOMAIN cat.articleCategories # {}) => LookupsDone
  /\ PersistIssued => (LookupsDone /\ AllClassified)

\* C27: within one refresh run the categorize request of a batch is issued
\* only when the requests of all earlier batches have completed, by a merged
\* response or by a failure: at most one request of the run is outstanding.
C27_OneBatchInFlight ==
  /\ rf.sent - rf.posts \in {0, 1}
  /\ rf.pc = "batching" => (rf.posts = rf.i - 1 /\ rf.sent \in {rf.i - 1, rf.i})
  /\ rf.sent - rf.posts = 1 <=> (rf.pc = "batching" /\ cat.pc # "idle")

\* the request of the second batch is outstanding, that of the first has
\* completed
C27_Witness ==
  /\ rf.pc = "batching"
  /\ Len(rf.batches) = 2
  /\ rf.sent = 2
  /\ rf.posts = 1
  /\ cat.pc \in {"lookup", "classify", "save"}

\* the result of the call lists this listing under this category
InResultUnder(link, category) ==
  /\ category \in DOMAIN cat.result.categorizedArticles
  /\ \E j \in 1..Len(cat.result.categorizedArticles[category]) :
       cat.result.categorizedArticles[category][j].link = link

\* C28: a rejected upsert batch, or a rejected single record, never ends the
\* categorize call in a failure and never takes a classified item out of the
\* result: the call still returns, with every item it classified under the
\* category it was given.
C28_PersistFailureKeepsResult ==
  cat.failedBatches # <<>>
    => /\ cat.pc \in {"save", "jsStore", "returned"}
       /\ cat.pc = "returned" => cat.result # Null
       /\ cat.result # Null
            => \A l \in DOMAIN cat.articleCategories :
                 InResultUnder(l, cat.articleCategories[l])

\* a call whose only upsert batch was rejected has returned its two
\* classified items
C28_Witness ==
  /\ cat.pc = "returned"
  /\ cat.failedBatches # <<>>
  /\ cat.savedCount = 0
  /\ Cardinality(DOMAIN cat.articleCategories) = 2
  /\ \A l \in DOMAIN cat.articleCategories :
       InResultUnder(l, cat.articleCategories[l])

\* C29: when a refresh run returns, articlesFromCache is the number of
\* fetched items its lookups found in the store, newlySavedToSupabase the
\* number of items its upserts persisted, and the two together do not exceed
\* the number of items fetched.
C29_CountersCountItems ==
  rf.pc = "returned"
    => /\ rf.result.stats.articlesFromCache = rf.found
       /\ rf.result.stats.newlySavedToSupabase = rf.persisted
       /\ rf.result.stats.articlesFromCache + rf.result.stats.newlySavedToSupabase
            <= rf.result.stats.totalArticles

\* the part of C29 about the sum alone
C29_SumWithinFetched ==
  rf.pc = "returned"
    => rf.result.stats.articlesFromCache + rf.result.stats.newlySavedToSupabase
         <= rf.result.stats.totalArticles

\* the rows that a step adds, drops or replaces
ChangedRows == (cacheTable \ cacheTable') \cup (cacheTable' \ cacheTable)

\* C30: a read leaves every row of articles_cache as it was, expired rows
\* included; the table changes only in a sweep, which only drops rows, or in
\* a write, which touches the rows of one fingerprint only.
C30_ReadsLeaveEntries ==
  [][/\ lastReturn'.op = "get" => cacheTable' = cacheTable
     /\ cacheTable' # cacheTable
          => \/ /\ lastReturn'.op \in {"cleanup", "clear"}
                /\ cacheTable' \subseteq cacheTable
             \/ /\ lastReturn'.op \in {"set", "delete"}
                /\ \A r1, r2 \in ChangedRows : r1.request_hash = r2.request_hash]_vars

\* a read has just missed on a key whose row, written more than the TTL
\* earlier, is still in the table
C30_Witness ==
  /\ lastReturn.op = "get"
  /\ lastGet.valid
  /\ lastGet.at = now
  /\ lastGet.value = Null
  /\ \E r \in cacheTable :
       /\ r.request_hash = generateRequestHash([key |-> lastGet.key])
       /\ r.created_at <= now - ttlConfig

\* C31: getCachedArticles goes on to the write-through exactly when its
\* durable query gave a non-empty result and skipLocalCache is false; the
\* write-through, stored or not, ends the call with the same result, and no
\* other step of the call writes to the cache.
C31_WriteThroughIffNonEmpty ==
  [][/\ (gca.pc = "query" /\ gca'.pc # "query")
          => (gca'.pc = "store"
                <=> /\ gca'.result # Null
                    /\ ~gca.skipLocalCache
                    /\ gca'.result.stats.totalArticles > 0)
     /\ (gca.pc = "store" /\ gca' # gca)
          => /\ gca'.pc = "returned"
             /\ gca'.result = gca.result
             /\ gca'.writes = (IF cacheDataSucceeds THEN 1 ELSE 0)
     /\ (gca' # gca /\ gca.pc # "store") => cacheTable' = cacheTable]_vars

\* a call has returned its non-empty durable result although its
\* write-through stored nothing
C31_Witness ==
  /\ gca.pc = "returned"
  /\ gca.queries = 1
  /\ ~gca.skipLocalCache
  /\ gca.result # Null
  /\ gca.result.stats.totalArticles > 0
  /\ gca.writes = 0
  /\ lastReturn = Return("set", FALSE, 0)

\* a row filed under the fingerprint the lookup of this call reads, holding
\* a value (not the null a delete leaves), written at most / less than the
\* TTL ago, on a working backend
RowWithinTtl(inclusive) ==
  /\ dbType # "none"
  /\ \E r \in cacheTable :
       /\ r.data # JsonStringify(Null)
       /\ r.request_hash
            = generateRequestHash([key |-> ArticlesCacheKey(gca.days, gca.limit)])
       /\ IF inclusive THEN now - r.created_at <= ttlConfig
          ELSE now - r.created_at < ttlConfig

C32_ValidBeforeTtl ==
  [][(gca.pc = "lookup" /\ gca'.pc # "lookup")
       => (RowWithinTtl(FALSE) <=> (gca'.pc = "returned" /\ gca'.lookup # Null))]_vars

\* C33: getCachedArticles rejects a request for its limit only above the
\* 1000-row ceiling; a limit from 1 to 1000 is accepted and caps the durable
\* query.
C33_RejectsOnlyAboveThousand ==
  /\ (gca.pc = "threw" /\ gca.error = "Invalid request") => gca.limit > ROUTE_MAX_LIMIT
  /\ (gca.pc # "idle" /\ gca.limit \in 1..ROUTE_MAX_LIMIT) => gca.error # "Invalid request"

\* C34: the run-flag stays set for as long as the server-side run that a
\* tick started is executing; the 60-second timeout of the tick's request
\* does not clear it while that run goes on.
C34_FlagHeldWhileRunExecutes ==
  \A t \in Ticks : run[t].phase \in RunActivePhases => isJobRunning

\* C35: a refresh run requested directly, or through the minCached redirect,
\* never executes while a run started by a tick or another such run is
\* executing.
C35_DirectRunNeverConcurrent ==
  \A d \in DirectCalls :
    run[d].phase \in RunActivePhases
      => \A r \in Runs \ {d} : run[r].phase \notin RunActivePhases

(***************************************************************************)
(* Claims about the initialisation of the cache database                   *)
(***************************************************************************)

\* C36: every resolution of initializeDatabase that carries a handle carries
\* the dbType of the backend that handle belongs to; a caller arriving
\* while the sqlite3 fallback is opening is never given a handle with
\* dbType 'none' or 'better-sqlite3'.
C36_ResolvedTypeMatchesHandle ==
  \A i \in 1..Len(dbi.resolved) :
    dbi.resolved[i].db # "none" => dbi.resolved[i].dbType = dbi.resolved[i].db

(***************************************************************************)
(* Claims about the items of a categorize result                           *)
(***************************************************************************)

\* the number of times a link occurs in the input of the call
InputCount(link) ==
  Cardinality({i \in 1..Len(cat.articles) : cat.articles[i].link = link})

\* the number of times a link occurs in the result, over all categories
ResultCount(link) ==
  LET map == cat.result.categorizedArticles
  IN Cardinality(UNION {{<<k, j>> : j \in {j \in 1..Len(map[k]) :
                                              map[k][j].link = link}} :
                          k \in DOMAIN map})

ResultLinks ==
  UNION {{cat.result.categorizedArticles[k][j].link :
            j \in 1..Len(cat.result.categorizedArticles[k])} :
           k \in DOMAIN cat.result.categorizedArticles}

InputLinks == {cat.articles[i].link : i \in 1..Len(cat.articles)}

\* C37: for a non-empty input the links of the result of categorizeArticles,
\* over all categories, are the links of the input with the same
\* multiplicities: no item lost, none returned twice, none from outside.
C37_ResultLinksEqualInputLinks ==
  (cat.pc = "returned" /\ Len(cat.articles) > 0)
    => \A link \in InputLinks \cup ResultLinks :
         ResultCount(link) = InputCount(link)

\* the same for the inputs whose links are pairwise distinct
C37_DistinctLinksKept ==
  (/\ cat.pc = "returned"
   /\ Len(cat.articles) > 0
   /\ \A link \in InputLinks : InputCount(link) = 1)
    => \A link \in InputLinks \cup ResultLinks :
         ResultCount(link) = InputCount(link)

(***************************************************************************)
(* Claims about the sweep and the read TTL                                 *)
(***************************************************************************)

\* the rows a periodic sweep step removes that getCachedData would select
\* in the same second with the read TTL (sqliteCache.ts:193-197)
SweptWhileReadValid ==
  {r \in cacheTable \ cacheTable' : r.created_at > now - ttlConfig}

\* C38: a scheduled cleanup sweep never deletes an entry that a read at the
\* same instant would still return as valid, that is an entry younger than
\* the read TTL.
C38_SweepKeepsReadValidEntries ==
  [][(lastReturn'.op = "cleanup" /\ ops' = ops + 1)
       => SweptWhileReadValid = {}]_vars

\* the same when the sweep's expiration is not below the read TTL
C38_SweepKeepsReadValidWhenCovered ==
  [][(/\ lastReturn'.op = "cleanup"
      /\ ops' = ops + 1
      /\ cleanupExpirationSeconds >= ttlConfig)
       => SweptWhileReadValid = {}]_vars

(***************************************************************************)
(* Claims about the configuration check with the credentials present       *)
(***************************************************************************)

\* C39: with the durable-store credentials (URL and service key) present,
\* neither getCachedArticles nor fetchCategorizeAndCacheArticles fails with
\* the 'Cache service unavailable: Supabase not configured' error.
C39_ConfiguredPassesCheck ==
  supabaseIsConfigured =>
    /\ gca.pc = "threw" => gca.error # "Cache service unavailable"
    /\ rf.pc = "threw" => rf.error # "Cache service unavailable"

====
